---- MODULE Spec2Model ----
(***************************************************************************)
(* Verification model of telegram-channel-saver:                           *)
(*   - download_media_safely (src/src/media.py, duplicated in saver.py)    *)
(*   - save_channel_messages (src/src/messages.py, duplicated in saver.py) *)
(*   - download_video_messages (src/src/media.py, duplicated in saver.py) *)
(* Optional Python values (None or a value) are modelled as sets with at   *)
(* most one element: None is {} and a value v is {v}.                      *)
(* Sleeps are recorded in hundredths of a second so that the jitter factor *)
(* (0.75 .. 1.25) stays an integer percentage.                             *)
(* Variables marked "history" record what happened; no guard or assignment *)
(* of a program variable reads them.                                       *)
(***************************************************************************)
EXTENDS Integers, Sequences, FiniteSets, TLC

\* ---------------------------------------------------------------- bounds
MaxWait == 2          \* largest flow-control wait (seconds) the provider mandates
MaxFloods == 2        \* most flow-control signals the provider issues in one stand-alone call
MaxCrawlFloods == 1   \* most flow-control signals in one download made by a crawl
MaxText == 2          \* number of distinct exception texts str(e)
MaxFile == 1          \* destination filenames of stand-alone download calls
MaxId == 3            \* largest message id of the channel
MaxBatch == 2         \* largest batch size (MESSAGES_BATCH_SIZE scaled down)
MaxRecent == 2        \* largest recent_count argument
MaxLimit == 2         \* largest limit argument
MaxUser == 2          \* largest user id among the channel's participants
MaxProfile == 2       \* number of distinct values of a user's profile fields
MaxUserRuns == 2      \* number of save_channel_users calls
MaxExportId == 3      \* largest id of a stored message handed to the export
MaxGroup == 2         \* number of distinct grouped_id values
MaxPhone == 3         \* number of phone numbers
MaxVideoId == 2       \* largest message id of the channel the video download runs on
MaxVideoRuns == 2     \* number of download_video_messages calls
MaxEquivRuns == 2     \* number of calls both implementations of the per-message step are run on

\* ------------------------------------------------------- config.py values
MESSAGES_BATCH_DELAY == 2        \* BATCH_DELAY
SAVE_INTERVAL == 300
MEDIA_DOWNLOAD_DELAY == 3
MEDIA_DOWNLOAD_TIMEOUT == 120
MEDIA_DOWNLOAD_RETRY == 3
MEDIA_RETRY_DELAY_BASE == 5
MAX_RETRIES == 3

None == {}
Some(v) == {v}
Val(o) == CHOOSE v \in o : TRUE

Max(S) == CHOOSE m \in S : \A x \in S : x <= m
Min(S) == CHOOSE m \in S : \A x \in S : m <= x

\* random.uniform(0.75, 1.25), as a percentage
Jitter == {75, 100, 125}

\* Exceptions of one transfer attempt that consume a retry unit, and the
\* non-exception failures (None result, empty or missing file).
ExceptionKinds == {"timeout", "server", "connection", "os", "unexpected"}
UnusableKinds == {"none", "empty", "missing"}
FailureKinds == ExceptionKinds \cup UnusableKinds

VARIABLES
    \* download_media_safely
    dl_pc,           \* position: idle, loop, attempt, returned (raised: exception left the function)
    dl_filename,     \* filename argument (the destination)
    dl_retry_count,  \* retry_count
    dl_result,       \* result dict: success, file_path, error
    dl_floods,       \* number of flow-control signals in this call (capped by MaxFloods)
    dl_outcomes,     \* history: the transfer outcomes of this call, in order, each as
                     \* ok, flood, timeout or failure (any other failed attempt)
    dl_last,         \* history: the last transfer outcome, with its text or wait
    dl_lastFailure,  \* history: the last outcome that was not a flow-control signal
    dl_slept,        \* history: hundredths of seconds slept since the last attempt
    dl_backoffs,     \* history: backoff_time of every backoff sleep, in order
    \* the file system and the remote channel
    disk,            \* disk.full / disk.empty: destinations holding a non-empty / empty file
    remote,          \* the channel's message log: id -> message
    remote_changed,  \* history: a message was deleted from the channel between two calls
    messages_batch_size, \* MESSAGES_BATCH_SIZE
    \* the store
    messages,        \* db['messages'][channel_id]: id -> record
    videos,          \* db['videos'][channel_id]: id -> record
    persisted,       \* the snapshot last written by save_database
    \* save_channel_messages
    plan,            \* the calls the user still makes, in order
    run,             \* number of calls started (the clock of last_update)
    pc,              \* position: idle, loop, process, media, final, done
    args,            \* limit, force_redownload, min_id, max_id, recent_count, download_media
    ret,             \* return value: None while running, else {TRUE} or {FALSE}
    first_message,   \* id of the oldest message, or None
    last_message,    \* id of the newest message, or None
    fetch_min_id,
    fetch_max_id,
    current_id,
    retry_count,
    cnt,             \* processed, saved, updated, skipped, errors, media_downloaded, media_skipped, media_errors
    batch_messages,  \* the ids of the batch, newest first
    idx,             \* position of the per-message loop in batch_messages
    handled,         \* history: ids handed to per-message processing in this call
    start_messages,  \* history: the stored messages when this call started
    prev,            \* history: the previous call: its args, whether it ran its crawl to
                     \* the end without a per-message exception, and whether every
                     \* media download it made succeeded
    batch_floods,    \* history: how many of the batch exceptions counted in retry_count
                     \* were flow-control signals (FloodWaitError)
    recovered,       \* history: the largest retry_count a completed batch of this
                     \* call reset to 0 (None where it is not followed)
    since_save,      \* seconds that have at least passed since last_save_time (the
                     \* sleeps and timeouts of the code, in whole minutes)
    last_sleep,      \* history: seconds of the asyncio.sleep the crawl made in its
                     \* last step, 0 if it made none
    \* save_channel_users
    users,           \* db['users'][channel_id]: id -> record
    users_persisted, \* the users in the file last written by save_database
    users_now,       \* the clock of datetime.now(): the number of the current call
    users_fetch,     \* history: the participants the last call processed, id -> profile
    users_ret,       \* return value of the last call, None before the first
    \* export_individual_messages
    ex_pc,            \* position: idle, loop, done
    ex_store,         \* db['messages'][channel_id]: id -> grouped_id (0: no group)
    ex_todo,          \* the rest of sorted_messages
    processed_groups, \* processed_groups
    ex_count,         \* exported_count, skipped_count, error_count
    ex_files,         \* the export directory: id in the file name -> ids in the file
    ex_writes,        \* history: grouped_id -> how often its artifact was opened for writing
    ex_failed,        \* history: the grouped_ids whose export raised
    ex_ret,           \* the 'success' of the returned dict, None while running
    \* load_database
    ld_impl,          \* "module": src.database.load_database, "class": ChannelSaver.load_database
    ld_file,          \* the database file
    ld_writable,      \* whether the file can be opened for writing
    ld_file0,         \* history: the file when load_database was called
    ld_ret,           \* None before the return, else what load_database did
    \* the sessions of ChannelSaver
    sessions,           \* self.db['sessions']: phone -> [active]
    sessions_persisted, \* the 'sessions' of the database file
    phone,              \* self.phone, None before the first login
    ses_last,           \* history: the last session operation and its phone
    \* download_video_messages
    vd_pc,            \* position: idle, list (the listing loop), media (a download runs), done
    vd_todo,          \* the ids the listing iteration still yields, newest first
    vd_runs,          \* number of calls started (the clock of download_date)
    vd_cnt,           \* downloaded, skipped, errors
    vd_ret,           \* return value: None while running and before the first call
    vd_exit,          \* history: how the last call ended
    vd_last,          \* history: the last item handled, its outcome and the seconds slept after it
    vd_removed,       \* history: the files the user removed from the download directory
    \* the per-message step of save_channel_messages in its two implementations
    eq_st,            \* implementation -> the store and counters it has produced
    eq_disk,          \* the download directory both implementations see
    eq_args,          \* force_redownload, download_media of the current call
    eq_todo,          \* the messages the call still handles, newest first
    eq_run,           \* number of calls started
    eq_last           \* history: implementation -> how it handled the last message

dl_vars == <<dl_pc, dl_filename, dl_retry_count, dl_result, dl_floods, dl_outcomes,
             dl_last, dl_lastFailure, dl_slept, dl_backoffs>>
users_vars == <<users, users_persisted, users_now, users_fetch, users_ret>>
export_vars == <<ex_pc, ex_store, ex_todo, processed_groups, ex_count, ex_files,
                 ex_writes, ex_failed, ex_ret>>
load_vars == <<ld_impl, ld_file, ld_writable, ld_file0, ld_ret>>
session_vars == <<sessions, sessions_persisted, phone, ses_last>>
video_vars == <<vd_pc, vd_todo, vd_runs, vd_cnt, vd_ret, vd_exit, vd_last, vd_removed>>
equiv_vars == <<eq_st, eq_disk, eq_args, eq_todo, eq_run, eq_last>>
aux_vars == <<users_vars, export_vars, load_vars, session_vars, video_vars, equiv_vars>>
env_vars == <<remote, remote_changed, messages_batch_size, aux_vars>>
db_vars == <<messages, videos, persisted>>
range_vars == <<first_message, last_message, fetch_min_id, fetch_max_id>>
crawl_core == <<plan, run, pc, args, ret, range_vars, current_id, retry_count, cnt,
                batch_messages, idx, handled, start_messages, prev, batch_floods, recovered>>
crawl_vars == <<crawl_core, since_save, last_sleep>>

vars == <<dl_vars, disk, env_vars, db_vars, crawl_vars>>

\* ------------------------------------------------- download_media_safely

\* The history of a download is recorded for stand-alone calls only.
Standalone == pc = "idle" /\ vd_pc = "idle"
Hist(new, old) == IF Standalone THEN new ELSE old

\* What the history keeps of the outcome of one transfer attempt.
OutcomeClass(kind) ==
    IF kind \in {"ok", "flood", "timeout"} THEN kind ELSE "failure"

\* The clock of the crawl after n more seconds (a stand-alone download has
\* no crawl clock, and the clock is followed in the first call of a plan
\* only, and not once download_video_messages was called). The clock is a lower bound of the time that passed, kept in whole
\* minutes (each addition is rounded down) and capped just above
\* SAVE_INTERVAL.
Tick(n) ==
    IF Standalone \/ run > 1 \/ vd_pc # "idle" THEN since_save
    ELSE IF since_save + (n \div 60) * 60 > SAVE_INTERVAL
            THEN SAVE_INTERVAL + 60
            ELSE since_save + (n \div 60) * 60

\* result = {'success': False, 'file_path': None, 'error': None}
InitialResult == [success |-> FALSE, file_path |-> None, error |-> None]

\* The error strings of the handlers; text is str(e), seconds is e.seconds.
ErrorMessage(kind, arg) ==
    CASE kind = "timeout" -> [msg |-> "Download timed out after seconds", arg |-> MEDIA_DOWNLOAD_TIMEOUT]
      [] kind = "flood" -> [msg |-> "Rate limit exceeded! Required to wait seconds", arg |-> arg]
      [] kind = "server" -> [msg |-> "Telegram server error: ", arg |-> arg]
      [] kind = "connection" -> [msg |-> "Connection error: ", arg |-> arg]
      [] kind = "os" -> [msg |-> "OS error: ", arg |-> arg]
      [] kind = "unexpected" -> [msg |-> "Unexpected error: ", arg |-> arg]
      [] kind = "none" -> [msg |-> "Download returned None", arg |-> 0]
      [] OTHER -> [msg |-> "Download failed - file is empty or missing", arg |-> 0]

\* Mutant: linear instead of exponential backoff.
BackoffTime_linear(rc) == MEDIA_RETRY_DELAY_BASE * rc

\* backoff_time = MEDIA_RETRY_DELAY_BASE * (2 ** (retry_count - 1))
BackoffTime(rc) == MEDIA_RETRY_DELAY_BASE * (2 ^ (rc - 1))

\* while retry_count <= max_retries
LoopCondition(rc) == rc <= MEDIA_DOWNLOAD_RETRY

\* Mutant: a failed attempt does not consume the retry budget.
IncrementRetry_stuck(rc) == rc

\* retry_count += 1 at the bottom of the loop body
IncrementRetry(rc) == rc + 1

\* Mutant: the flow-control handler falls through to the retry increment.
RetryAfterFlood_counted(rc) == rc + 1

\* "continue  # Skip retry increment" in the FloodWaitError handler
RetryAfterFlood(rc) == rc

\* Mutant: a handler keeps an error that is already recorded.
RecordError_keepFirst(res, err) ==
    IF res.error = None THEN [res EXCEPT !.error = Some(err)] ELSE res

\* result['error'] = ... in a handler
RecordError(res, err) == [res EXCEPT !.error = Some(err)]

\* result['success'] = True; result['file_path'] = file_path
RecordSuccess(res, path) == [res EXCEPT !.success = TRUE, !.file_path = Some(path)]

\* os.path.exists(path)
Exists(d, path) == path \in d.full \cup d.empty

\* The file system after a transfer wrote a non-empty file to f, after it
\* wrote an empty file to f, and after f is removed (or was never written).
WriteFull(d, f) == [full |-> d.full \cup {f}, empty |-> d.empty \ {f}]
WriteEmpty(d, f) == [full |-> d.full \ {f}, empty |-> d.empty \cup {f}]
Remove(d, f) == [full |-> d.full \ {f}, empty |-> d.empty \ {f}]

\* Mutant: the empty file is left where it is.
CleanUpEmpty_kept(d, f, removable) == WriteEmpty(d, f)

\* if os.path.exists(file_path): os.remove(file_path), for a file of size 0;
\* removable is false when os.remove raises.
CleanUpEmpty(d, f, removable) == IF removable THEN Remove(d, f) ELSE WriteEmpty(d, f)

\* The state of a call that is not running.
DownloadIdle ==
    /\ dl_pc' = "idle"
    /\ dl_filename' = 1
    /\ dl_retry_count' = 0
    /\ dl_result' = InitialResult
    /\ dl_floods' = 0
    /\ dl_outcomes' = << >>
    /\ dl_last' = None
    /\ dl_lastFailure' = None
    /\ dl_slept' = 0
    /\ dl_backoffs' = << >>

\* Entry of download_media_safely(client, message, filename, file_size)
DownloadEnter(f) ==
    /\ dl_filename' = f
    /\ dl_retry_count' = 0
    /\ dl_result' = InitialResult
    /\ dl_pc' = "loop"
    /\ dl_floods' = 0
    /\ dl_outcomes' = << >>
    /\ dl_last' = None
    /\ dl_lastFailure' = None
    /\ dl_slept' = 0
    /\ dl_backoffs' = << >>

\* Top of the while loop with retry_count = 0: no backoff.
LoopFirstAttempt ==
    /\ dl_pc = "loop"
    /\ LoopCondition(dl_retry_count)
    /\ ~(dl_retry_count > 0)
    /\ dl_pc' = "attempt"
    /\ UNCHANGED <<dl_filename, dl_retry_count, dl_result, dl_floods, dl_outcomes,
                   dl_last, dl_lastFailure, dl_slept, dl_backoffs>>
    /\ UNCHANGED <<disk, env_vars, db_vars, crawl_vars>>

\* Top of the while loop with retry_count > 0: sleep backoff_time * jitter.
LoopBackoff ==
    /\ dl_pc = "loop"
    /\ LoopCondition(dl_retry_count)
    /\ dl_retry_count > 0
    /\ \E jitter \in (IF Standalone THEN Jitter ELSE {100}) :
           dl_slept' = Hist(dl_slept + BackoffTime(dl_retry_count) * jitter, dl_slept)
    /\ dl_backoffs' = Hist(Append(dl_backoffs, BackoffTime(dl_retry_count)), dl_backoffs)
    /\ dl_pc' = "attempt"
    /\ since_save' = Tick(BackoffTime(dl_retry_count))
    /\ UNCHANGED last_sleep
    /\ UNCHANGED <<dl_filename, dl_retry_count, dl_result, dl_floods, dl_outcomes,
                   dl_last, dl_lastFailure>>
    /\ UNCHANGED <<disk, env_vars, db_vars, crawl_core>>

\* The while condition fails: "All retries failed", return result.
LoopExhausted ==
    /\ dl_pc = "loop"
    /\ ~LoopCondition(dl_retry_count)
    /\ dl_pc' = "returned"
    /\ UNCHANGED <<dl_filename, dl_retry_count, dl_result, dl_floods, dl_outcomes,
                   dl_last, dl_lastFailure, dl_slept, dl_backoffs>>
    /\ UNCHANGED <<disk, env_vars, db_vars, crawl_vars>>

\* The transfer returns a path whose file exists with non-zero size.
TransferSucceeds ==
    /\ dl_pc = "attempt"
    /\ disk' = WriteFull(disk, dl_filename)
    /\ dl_result' = RecordSuccess(dl_result, dl_filename)
    /\ dl_pc' = "returned"
    /\ dl_outcomes' = Hist(Append(dl_outcomes, "ok"), dl_outcomes)
    /\ dl_last' = Hist(Some([kind |-> "ok", arg |-> 0]), dl_last)
    /\ dl_slept' = 0
    /\ UNCHANGED <<dl_filename, dl_retry_count, dl_floods, dl_lastFailure, dl_backoffs>>
    /\ UNCHANGED <<env_vars, db_vars, crawl_vars>>

\* The transfer returns a path whose file exists with non-zero size, which
\* differs from the expected file_size by more than 1 KiB: a warning is
\* logged and the result is the one of a success.
TransferSucceedsMismatch ==
    /\ dl_pc = "attempt"
    /\ disk' = WriteFull(disk, dl_filename)
    /\ dl_result' = RecordSuccess(dl_result, dl_filename)
    /\ dl_pc' = "returned"
    /\ dl_outcomes' = Hist(Append(dl_outcomes, "ok"), dl_outcomes)
    /\ dl_last' = Hist(Some([kind |-> "ok", arg |-> 1]), dl_last)
    /\ dl_slept' = 0
    /\ UNCHANGED <<dl_filename, dl_retry_count, dl_floods, dl_lastFailure, dl_backoffs>>
    /\ UNCHANGED <<env_vars, db_vars, crawl_vars>>

\* Mutant: the handlers without the catch-all "except Exception".
Caught_noCatchAll(kind) ==
    kind \in {"timeout", "flood", "server", "connection", "os"}

\* The except clauses of the try block, in order: asyncio.TimeoutError,
\* FloodWaitError, (ServerError, TimedOutError), ConnectionError, OSError and
\* the catch-all Exception.
Caught(kind) ==
    kind \in {"timeout", "flood", "server", "connection", "os", "unexpected"}

\* The transfer raises an exception that is not a flow-control signal: the
\* matching handler records the error and the loop body falls through to the
\* retry increment. An exception no handler matches leaves the function.
TransferRaises(kind, text) ==
    /\ dl_pc = "attempt"
    /\ kind \in ExceptionKinds
    /\ IF Caught(kind)
          THEN /\ dl_result' = RecordError(dl_result, ErrorMessage(kind, text))
               /\ dl_retry_count' = IncrementRetry(dl_retry_count)
               /\ dl_pc' = "loop"
          ELSE /\ dl_pc' = "raised"
               /\ UNCHANGED <<dl_result, dl_retry_count>>
    /\ dl_outcomes' = Hist(Append(dl_outcomes, OutcomeClass(kind)), dl_outcomes)
    /\ dl_last' = Hist(Some([kind |-> kind, arg |-> text]), dl_last)
    /\ dl_lastFailure' = Hist(Some([kind |-> kind, arg |-> text]), dl_lastFailure)
    /\ dl_slept' = 0
    /\ since_save' = Tick(IF kind = "timeout" THEN MEDIA_DOWNLOAD_TIMEOUT ELSE 0)
    /\ UNCHANGED last_sleep
    /\ UNCHANGED <<dl_filename, dl_floods, dl_backoffs>>
    /\ UNCHANGED <<disk, env_vars, db_vars, crawl_core>>

\* The transfer returns without an exception but without a usable file:
\* "none" (returned None), "missing" (a path whose file does not exist) or
\* "empty" (a path whose file has size 0, which os.remove deletes). When
\* removable is false os.remove raises OSError, the OSError handler
\* overwrites the error and the empty file stays.
TransferUnusable(kind, removable, text) ==
    /\ dl_pc = "attempt"
    /\ kind \in UnusableKinds
    /\ removable \/ kind = "empty"
    /\ disk' = CASE kind = "none" -> disk
                 [] kind = "missing" -> Remove(disk, dl_filename)
                 [] OTHER -> CleanUpEmpty(disk, dl_filename, removable)
    /\ dl_result' = IF removable
                       THEN RecordError(dl_result, ErrorMessage(kind, 0))
                       ELSE RecordError(RecordError(dl_result, ErrorMessage(kind, 0)),
                                        ErrorMessage("os", text))
    /\ dl_retry_count' = IncrementRetry(dl_retry_count)
    /\ dl_pc' = "loop"
    /\ dl_outcomes' = Hist(Append(dl_outcomes, OutcomeClass(kind)), dl_outcomes)
    /\ dl_last' = Hist(Some(IF removable THEN [kind |-> kind, arg |-> 0]
                                         ELSE [kind |-> "os", arg |-> text]), dl_last)
    /\ dl_lastFailure' = dl_last'
    /\ dl_slept' = 0
    /\ UNCHANGED <<dl_filename, dl_floods, dl_backoffs>>
    /\ UNCHANGED <<env_vars, db_vars, crawl_vars>>

\* The transfer raises FloodWaitError(seconds = w): sleep w, then continue.
TransferFloodWait(w) ==
    /\ dl_pc = "attempt"
    /\ dl_result' = RecordError(dl_result, ErrorMessage("flood", w))
    /\ dl_retry_count' = RetryAfterFlood(dl_retry_count)
    /\ dl_slept' = Hist(w * 100, dl_slept)
    /\ dl_pc' = "loop"
    /\ dl_outcomes' = Hist(Append(dl_outcomes, "flood"), dl_outcomes)
    /\ dl_last' = Hist(Some([kind |-> "flood", arg |-> w]), dl_last)
    /\ dl_floods' = dl_floods + 1
    /\ since_save' = Tick(w)
    /\ UNCHANGED last_sleep
    /\ UNCHANGED <<dl_filename, dl_lastFailure, dl_backoffs>>
    /\ UNCHANGED <<disk, env_vars, db_vars, crawl_core>>

\* The outcomes enumerated for one transfer attempt. A stand-alone call
\* meets every kind of failure, text and wait. A crawl reads only success and
\* file_path of the result, so for its downloads one exception, one unusable
\* result and one wait are enumerated.
RaisedKinds == IF Standalone THEN ExceptionKinds ELSE {"timeout"}
ReturnedKinds == IF Standalone THEN UnusableKinds ELSE {"none"}
Waits == IF Standalone THEN 1..MaxWait ELSE {1}
FloodCap == IF Standalone THEN MaxFloods ELSE MaxCrawlFloods
UnremovableTexts == IF Standalone THEN 1..MaxText ELSE {}

\* Text str(e) carried by an exception of the given kind (0 when the handler
\* does not use it).
TextsOf(kind) == IF kind = "timeout" THEN {0} ELSE 1..MaxText

DownloadStep ==
    \/ LoopFirstAttempt
    \/ LoopBackoff
    \/ LoopExhausted
    \/ TransferSucceeds
    \/ \E kind \in RaisedKinds : \E text \in TextsOf(kind) : TransferRaises(kind, text)
    \/ \E kind \in ReturnedKinds : \/ TransferUnusable(kind, TRUE, 0)
                                   \/ \E text \in UnremovableTexts :
                                          TransferUnusable(kind, FALSE, text)
    \/ \E w \in Waits : dl_floods < FloodCap /\ TransferFloodWait(w)

\* ------------------------------------------------- save_channel_messages

\* The remote message with the given id: the kind of its attachment, views
\* for the counters the reconciliation compares (views, forwards, reactions)
\* and text for the fields it does not (text, raw_text, edit_date).
MediaOf(id) ==
    CASE id % 4 = 1 -> "photo"
      [] id % 4 = 3 -> "video"
      [] OTHER -> "none"

RemoteMessage(id) == [media |-> MediaOf(id), views |-> 0, text |-> 0]

\* The channel logs: any subset of the ids exists (gaps are deleted messages).
Channels == {[i \in S |-> RemoteMessage(i)] : S \in SUBSET (1..MaxId)}

\* The first n elements of S, newest (largest id) first.
RECURSIVE Newest(_, _)
Newest(S, n) ==
    IF S = {} \/ n = 0
       THEN << >>
       ELSE LET m == Max(S) IN <<m>> \o Newest(S \ {m}, n - 1)

\* client.iter_messages(channel, limit, max_id, min_id): the ids strictly
\* between min_id and max_id, newest first, at most limit of them.
IterMessages(log, limit, max_id, min_id) ==
    Newest({i \in DOMAIN log : min_id < i /\ i < max_id}, limit)

\* fetch_min_id: min_id if given, else first_message.id; overwritten by
\* max(first_message.id, last_message.id - recent_count) if recent_count is given.
FetchMinId(a, first, last) ==
    IF a.recent_count # None
       THEN (IF first >= last - Val(a.recent_count)
                THEN first ELSE last - Val(a.recent_count))
       ELSE IF a.min_id # None THEN Val(a.min_id) ELSE first

\* fetch_max_id: max_id if given, else last_message.id + 1; overwritten by
\* last_message.id + 1 if recent_count is given.
FetchMaxId(a, first, last) ==
    IF a.recent_count # None
       THEN last + 1
       ELSE IF a.max_id # None THEN Val(a.max_id) ELSE last + 1

\* Mutant: an empty range (min = max) is let through.
InvalidRange_reversedOnly(lo, hi) == lo > hi

\* if fetch_min_id >= fetch_max_id: "Invalid message range"
InvalidRange(lo, hi) == lo >= hi

\* while current_id >= fetch_min_id and (limit is None or processed < limit)
CrawlCondition ==
    /\ current_id >= fetch_min_id
    /\ (IF args.limit = None THEN TRUE ELSE cnt.processed < Val(args.limit))

\* Mutant: the batch size ignores the limit.
BatchSize_unlimited == messages_batch_size

\* batch_size = min(MESSAGES_BATCH_SIZE, remaining) if remaining is not None
\*              else MESSAGES_BATCH_SIZE
BatchSize ==
    IF args.limit # None
       THEN (IF messages_batch_size <= Val(args.limit) - cnt.processed
                THEN messages_batch_size
                ELSE Val(args.limit) - cnt.processed)
       ELSE messages_batch_size

\* Mutant: the lower bound of the listing request excludes the min_id message.
FetchMinBound_exclusive(lo) == lo

\* min_id = fetch_min_id - 1  # -1 to include the min_id message
FetchMinBound(lo) == lo - 1

\* The batch the listing request returns at the current cursor.
BatchAtCursor ==
    IterMessages(remote, BatchSize, current_id + 1, FetchMinBound(fetch_min_id))

\* Mutant: the cursor is set to the smallest id of the batch.
NextCursor_inclusive(batch) == Min({batch[i] : i \in DOMAIN batch})

\* current_id = min(msg.id for msg in batch_messages) - 1
NextCursor(batch) == Min({batch[i] : i \in DOMAIN batch}) - 1

ZeroCounters ==
    [processed |-> 0, saved |-> 0, updated |-> 0, skipped |-> 0, errors |-> 0,
     media_downloaded |-> 0, media_skipped |-> 0, media_errors |-> 0]

\* message_dict as built from the remote message (media_file_path is None
\* until the media step sets it); last_update is the time of the call.
MessageDict(m, now) ==
    [views |-> m.views, text |-> m.text, has_media |-> m.media # "none",
     media_file_path |-> None, last_update |-> now]

\* existing_media_path: the stored record's media_file_path, if any
ExistingMediaPath(store, id) ==
    IF id \in DOMAIN store THEN store[id].media_file_path ELSE None

\* not existing_media_path or not os.path.exists(existing_media_path)
\* or force_redownload
NeedsDownload(store, d, id, force) ==
    IF ExistingMediaPath(store, id) = None
       THEN TRUE
       ELSE ~Exists(d, Val(ExistingMediaPath(store, id))) \/ force

\* Mutant: the comparison also looks at the text.
NeedsUpdate_text(existing, dict, download_media) ==
    \/ existing.views # dict.views
    \/ (download_media /\ existing.media_file_path # dict.media_file_path)
    \/ existing.text # dict.text

\* Mutant: the comparison also looks at last_update.
NeedsUpdate_lastUpdate(existing, dict, download_media) ==
    \/ existing.views # dict.views
    \/ (download_media /\ existing.media_file_path # dict.media_file_path)
    \/ existing.last_update # dict.last_update

\* The comparison that decides between update and skip.
NeedsUpdate(existing, dict, download_media) ==
    \/ existing.views # dict.views
    \/ (download_media /\ existing.media_file_path # dict.media_file_path)

\* Mutant: the media path is compared also when media download is disabled.
Decision_pathAlways(store, id, dict, force, download_media) ==
    IF id \in DOMAIN store /\ ~force
       THEN (IF NeedsUpdate(store[id], dict, TRUE) THEN "updated" ELSE "skipped")
       ELSE "saved"

\* The outcome of the reconciliation of one message: saved, updated, skipped.
Decision(store, id, dict, force, download_media) ==
    IF id \in DOMAIN store /\ ~force
       THEN (IF NeedsUpdate(store[id], dict, download_media) THEN "updated" ELSE "skipped")
       ELSE "saved"

\* Mutant: saving a new record replaces the channel's records.
Reconciled_replaceAll(store, id, dict, force, download_media) ==
    CASE Decision(store, id, dict, force, download_media) = "skipped" -> store
      [] Decision(store, id, dict, force, download_media) = "updated" ->
            [store EXCEPT ![id] = dict]
      [] OTHER -> (id :> dict)

\* The store after the reconciliation of one message.
Reconciled(store, id, dict, force, download_media) ==
    CASE Decision(store, id, dict, force, download_media) = "skipped" -> store
      [] Decision(store, id, dict, force, download_media) = "updated" ->
            [store EXCEPT ![id] = dict]
      [] OTHER -> (id :> dict) @@ store

\* The counters after the reconciliation of one message.
Counted(c, decision) ==
    CASE decision = "saved" -> [c EXCEPT !.saved = @ + 1]
      [] decision = "updated" -> [c EXCEPT !.updated = @ + 1]
      [] OTHER -> [c EXCEPT !.skipped = @ + 1]

\* Mutant: the save writes the records as they were when the call started.
Snapshot_startOfCall == [messages |-> start_messages, videos |-> videos]

\* save_database(db_path, db): what the file holds after the save.
Snapshot == [messages |-> messages, videos |-> videos]

\* Entry of save_channel_messages up to the start of the crawl loop: the two
\* boundary fetches, the range resolution and the confirmation prompt.
\* boundary_ok is false when a boundary fetch raises (outer except: return
\* False); confirm is the user's answer.
CallSave(boundary_ok, confirm) ==
    /\ pc \in {"idle", "done"}
    /\ plan # << >>
    /\ dl_pc = "idle"
    /\ LET a == Head(plan)
           first == IF DOMAIN remote = {} THEN None ELSE Some(Min(DOMAIN remote))
           last == IF DOMAIN remote = {} THEN None ELSE Some(Max(DOMAIN remote))
           lo == IF first = None THEN 0 ELSE FetchMinId(a, Val(first), Val(last))
           hi == IF first = None THEN 0 ELSE FetchMaxId(a, Val(first), Val(last))
           resolved == boundary_ok /\ first # None
           proceed == resolved /\ ~InvalidRange(lo, hi) /\ confirm
       IN  /\ plan' = Tail(plan)
           /\ run' = run + 1
           /\ args' = a
           /\ first_message' = IF boundary_ok THEN first ELSE None
           /\ last_message' = IF boundary_ok THEN last ELSE None
           /\ fetch_min_id' = IF resolved THEN lo ELSE 0
           /\ fetch_max_id' = IF resolved THEN hi ELSE 0
           /\ current_id' = IF proceed THEN hi - 1 ELSE 0
           /\ pc' = IF proceed THEN "loop" ELSE "done"
           /\ ret' = IF proceed THEN None ELSE Some(FALSE)
    /\ retry_count' = 0
    /\ batch_floods' = 0
    /\ recovered' = IF recovered = None THEN None ELSE Some(0)
    /\ since_save' = 0
    /\ last_sleep' = 0
    /\ cnt' = ZeroCounters
    /\ batch_messages' = << >>
    /\ idx' = 1
    /\ handled' = << >>
    /\ start_messages' = messages
    /\ prev' = IF run = 0 THEN None
                ELSE Some([args |-> args,
                           completed |-> /\ ret = Some(TRUE)
                                         /\ retry_count < MAX_RETRIES
                                         /\ cnt.errors = 0,
                           media_ok |-> cnt.media_errors = 0])
    /\ UNCHANGED <<dl_vars, disk, env_vars, db_vars>>

\* The while condition fails: leave the loop.
LoopExit ==
    /\ pc = "loop"
    /\ ~CrawlCondition
    /\ pc' = "final"
    /\ UNCHANGED <<plan, run, args, ret, range_vars, current_id, retry_count, cnt,
                   batch_messages, idx, handled, start_messages, prev, batch_floods, recovered, since_save>>
    /\ last_sleep' = 0
    /\ UNCHANGED <<dl_vars, disk, env_vars, db_vars>>

\* The listing fetch returns a non-empty batch: count it, move the cursor.
FetchBatch ==
    /\ pc = "loop"
    /\ CrawlCondition
    /\ BatchAtCursor # << >>
    /\ batch_messages' = BatchAtCursor
    /\ cnt' = [cnt EXCEPT !.processed = @ + Len(BatchAtCursor)]
    /\ current_id' = NextCursor(BatchAtCursor)
    /\ since_save' = Tick(IF Len(BatchAtCursor) = messages_batch_size
                             THEN MESSAGES_BATCH_DELAY ELSE 0)
    /\ last_sleep' = IF Len(BatchAtCursor) = messages_batch_size
                        THEN MESSAGES_BATCH_DELAY ELSE 0
    /\ idx' = 1
    /\ pc' = "process"
    /\ UNCHANGED <<plan, run, args, ret, range_vars, retry_count, handled, start_messages, prev, batch_floods, recovered>>
    /\ UNCHANGED <<dl_vars, disk, env_vars, db_vars>>

\* The listing fetch returns nothing: "No more messages in batch", break.
FetchEmpty ==
    /\ pc = "loop"
    /\ CrawlCondition
    /\ BatchAtCursor = << >>
    /\ batch_messages' = << >>
    /\ pc' = "final"
    /\ UNCHANGED <<plan, run, args, ret, range_vars, current_id, retry_count, cnt,
                   idx, handled, start_messages, prev, batch_floods, recovered, since_save>>
    /\ last_sleep' = 0
    /\ UNCHANGED <<dl_vars, disk, env_vars, db_vars>>

\* Mutant: a failed fetch moves the cursor past a message.
FetchRaises_movesCursor(k, flood) ==
    /\ pc = "loop"
    /\ CrawlCondition
    /\ k < Len(BatchAtCursor) \/ k = 0
    /\ flood => k = 0 /\ run = 1
    /\ cnt' = [cnt EXCEPT !.processed = @ + k]
    /\ retry_count' = retry_count + 1
    /\ current_id' = current_id - 1
    /\ batch_floods' = IF flood THEN batch_floods + 1 ELSE batch_floods
    /\ UNCHANGED recovered
    /\ since_save' = IF retry_count + 1 >= MAX_RETRIES
                        THEN since_save ELSE Tick(2 * MESSAGES_BATCH_DELAY)
    /\ last_sleep' = IF retry_count + 1 >= MAX_RETRIES THEN 0 ELSE 2 * MESSAGES_BATCH_DELAY
    /\ pc' = IF retry_count + 1 >= MAX_RETRIES THEN "final" ELSE "loop"
    /\ UNCHANGED <<plan, run, args, ret, range_vars, batch_messages,
                   idx, handled, start_messages, prev>>
    /\ UNCHANGED <<dl_vars, disk, env_vars, db_vars>>

\* The listing fetch raises after yielding k messages (each already counted
\* in processed): the batch handler ("except Exception") counts a retry and
\* either breaks or sleeps 2 * BATCH_DELAY and retries at the same cursor.
\* flood tells that the exception is a FloodWaitError, raised by the request
\* before any message is yielded; the function has no handler of its own for
\* it, so it is handled as every other exception; which of the exceptions
\* are flow-control signals is followed in the first call of a plan only.
FetchRaises(k, flood) ==
    /\ pc = "loop"
    /\ CrawlCondition
    /\ k < Len(BatchAtCursor) \/ k = 0
    /\ flood => k = 0 /\ run = 1
    /\ cnt' = [cnt EXCEPT !.processed = @ + k]
    /\ retry_count' = retry_count + 1
    /\ batch_floods' = IF flood THEN batch_floods + 1 ELSE batch_floods
    /\ UNCHANGED recovered
    /\ since_save' = IF retry_count + 1 >= MAX_RETRIES
                        THEN since_save ELSE Tick(2 * MESSAGES_BATCH_DELAY)
    /\ last_sleep' = IF retry_count + 1 >= MAX_RETRIES THEN 0 ELSE 2 * MESSAGES_BATCH_DELAY
    /\ pc' = IF retry_count + 1 >= MAX_RETRIES THEN "final" ELSE "loop"
    /\ UNCHANGED <<plan, run, args, ret, range_vars, current_id, batch_messages,
                   idx, handled, start_messages, prev>>
    /\ UNCHANGED <<dl_vars, disk, env_vars, db_vars>>

\* The message the per-message loop is at.
Current == batch_messages[idx]

\* Mutant: the next message is taken up while a download is still running.
InBatch_duringMedia == pc \in {"process", "media"} /\ idx <= Len(batch_messages)

\* for message in batch_messages: the loop is at a message of the batch.
InBatch == pc = "process" /\ idx <= Len(batch_messages)

\* if download_media and message.media
WantsMedia == args.download_media /\ remote[Current].media # "none"

\* Mutant: a per-message exception ends the batch.
ProcessRaises_endsBatch ==
    /\ InBatch
    /\ cnt' = [cnt EXCEPT !.errors = @ + 1]
    /\ idx' = Len(batch_messages) + 1
    /\ handled' = Append(handled, Current)
    /\ UNCHANGED <<plan, run, pc, args, ret, range_vars, current_id, retry_count,
                   batch_messages, start_messages, prev, batch_floods, recovered, since_save>>
    /\ last_sleep' = 0
    /\ UNCHANGED <<dl_vars, disk, env_vars, db_vars>>

\* One iteration of the per-message loop that raises while the record is
\* built: logged, counted in errors, continue.
ProcessRaises ==
    /\ InBatch
    /\ cnt' = [cnt EXCEPT !.errors = @ + 1]
    /\ idx' = idx + 1
    /\ handled' = Append(handled, Current)
    /\ UNCHANGED <<plan, run, pc, args, ret, range_vars, current_id, retry_count,
                   batch_messages, start_messages, prev, batch_floods, recovered, since_save>>
    /\ last_sleep' = 0
    /\ UNCHANGED <<dl_vars, disk, env_vars, db_vars>>

\* One iteration for a message without a media step (no attachment, or
\* media download disabled): build the record and reconcile it.
ProcessPlain ==
    /\ InBatch
    /\ ~WantsMedia
    /\ LET dict == MessageDict(remote[Current], run)
           d == Decision(messages, Current, dict, args.force_redownload, args.download_media)
       IN  /\ messages' = Reconciled(messages, Current, dict, args.force_redownload,
                                     args.download_media)
           /\ cnt' = Counted(cnt, d)
    /\ idx' = idx + 1
    /\ handled' = Append(handled, Current)
    /\ UNCHANGED <<plan, run, pc, args, ret, range_vars, current_id, retry_count,
                   batch_messages, start_messages, prev, batch_floods, recovered, since_save>>
    /\ last_sleep' = 0
    /\ UNCHANGED <<dl_vars, disk, env_vars, videos, persisted>>

\* One iteration for a message whose media is already on disk: carry the
\* stored path over, count media_skipped, reconcile.
ProcessMediaPresent ==
    /\ InBatch
    /\ WantsMedia
    /\ ~NeedsDownload(messages, disk, Current, args.force_redownload)
    /\ LET dict == [MessageDict(remote[Current], run) EXCEPT
                       !.media_file_path = ExistingMediaPath(messages, Current)]
           d == Decision(messages, Current, dict, args.force_redownload, args.download_media)
       IN  /\ messages' = Reconciled(messages, Current, dict, args.force_redownload,
                                     args.download_media)
           /\ cnt' = [Counted(cnt, d) EXCEPT !.media_skipped = @ + 1]
    /\ idx' = idx + 1
    /\ handled' = Append(handled, Current)
    /\ UNCHANGED <<plan, run, pc, args, ret, range_vars, current_id, retry_count,
                   batch_messages, start_messages, prev, batch_floods, recovered, since_save>>
    /\ last_sleep' = 0
    /\ UNCHANGED <<dl_vars, disk, env_vars, videos, persisted>>

\* One iteration for a message whose media has to be downloaded: call
\* download_media_safely with a filename derived from the message id.
ProcessMediaStart ==
    /\ InBatch
    /\ WantsMedia
    /\ NeedsDownload(messages, disk, Current, args.force_redownload)
    /\ dl_pc = "idle"
    /\ DownloadEnter(Current)
    /\ pc' = "media"
    /\ handled' = Append(handled, Current)
    /\ UNCHANGED <<plan, run, args, ret, range_vars, current_id, retry_count, cnt,
                   batch_messages, idx, start_messages, prev, batch_floods, recovered, since_save>>
    /\ last_sleep' = 0
    /\ UNCHANGED <<disk, env_vars, db_vars>>

\* One iteration for a message whose media has to be downloaded, where the
\* media step raises before download_media_safely is called: the handler of
\* the media step counts media_errors and the record, its media_file_path
\* still None, is reconciled.
ProcessMediaRaises ==
    /\ InBatch
    /\ WantsMedia
    /\ NeedsDownload(messages, disk, Current, args.force_redownload)
    /\ LET dict == MessageDict(remote[Current], run)
           d == Decision(messages, Current, dict, args.force_redownload, args.download_media)
       IN  /\ messages' = Reconciled(messages, Current, dict, args.force_redownload,
                                     args.download_media)
           /\ cnt' = [Counted(cnt, d) EXCEPT !.media_errors = @ + 1]
    /\ idx' = idx + 1
    /\ handled' = Append(handled, Current)
    /\ UNCHANGED <<plan, run, pc, args, ret, range_vars, current_id, retry_count,
                   batch_messages, start_messages, prev, batch_floods, recovered, since_save>>
    /\ last_sleep' = 0
    /\ UNCHANGED <<dl_vars, disk, env_vars, videos, persisted>>

\* The video record the media step writes after a download: for a successful
\* download of an attachment whose MIME type contains 'video' the record of
\* the message is assigned, whatever the store holds for it.
MessageVideoRecord_keepExisting(store, id, result, media, now) ==
    IF result.success /\ media = "video" /\ id \notin DOMAIN store
       THEN (id :> [file_path |-> result.file_path, download_date |-> now]) @@ store
       ELSE store

MessageVideoRecord(store, id, result, media, now) ==
    IF result.success /\ media = "video"
       THEN (id :> [file_path |-> result.file_path, download_date |-> now]) @@ store
       ELSE store

\* download_media_safely returned: on success set the path, count
\* media_downloaded and write the video record if the MIME type is video; on
\* failure count media_errors. Then sleep MEDIA_DOWNLOAD_DELAY and reconcile.
ProcessMediaFinish ==
    /\ pc = "media"
    /\ dl_pc = "returned"
    /\ LET dict == [MessageDict(remote[Current], run) EXCEPT
                       !.media_file_path = dl_result.file_path]
           d == Decision(messages, Current, dict, args.force_redownload, args.download_media)
       IN  /\ messages' = Reconciled(messages, Current, dict, args.force_redownload,
                                     args.download_media)
           /\ cnt' = IF dl_result.success
                        THEN [Counted(cnt, d) EXCEPT !.media_downloaded = @ + 1]
                        ELSE [Counted(cnt, d) EXCEPT !.media_errors = @ + 1]
    /\ videos' = MessageVideoRecord(videos, Current, dl_result, remote[Current].media, run)
    /\ since_save' = Tick(MEDIA_DOWNLOAD_DELAY)
    /\ last_sleep' = MEDIA_DOWNLOAD_DELAY
    /\ idx' = idx + 1
    /\ pc' = "process"
    /\ DownloadIdle
    /\ UNCHANGED <<plan, run, args, ret, range_vars, current_id, retry_count,
                   batch_messages, handled, start_messages, prev, batch_floods, recovered>>
    /\ UNCHANGED <<disk, env_vars, persisted>>

\* The history of the resets of retry_count after a batch that reset rc.
Recovered(h, rc) ==
    IF h = None THEN None
    ELSE IF rc > Val(h) THEN Some(rc) ELSE h

\* Mutant: a completed batch leaves retry_count as it is.
RetryCountAfterBatch_kept(rc) == rc

\* "Reset retry count on successful batch": retry_count = 0 as the last
\* statement of the try body.
RetryCountAfterBatch(rc) == 0

\* End of the batch: save the database if more than SAVE_INTERVAL elapsed
\* since the last save (elapsed), reset retry_count. The sleeps and timeouts
\* since the last save are a lower bound of the time that passed: beyond
\* SAVE_INTERVAL the save happens, below it the work in between decides.
BatchEnd(elapsed) ==
    /\ pc = "process"
    /\ idx > Len(batch_messages)
    /\ since_save > SAVE_INTERVAL => elapsed
    /\ persisted' = IF elapsed THEN Snapshot ELSE persisted
    /\ since_save' = IF elapsed THEN 0 ELSE since_save
    /\ last_sleep' = 0
    /\ retry_count' = RetryCountAfterBatch(retry_count)
    /\ batch_floods' = 0
    /\ recovered' = Recovered(recovered, retry_count)
    /\ pc' = "loop"
    /\ UNCHANGED <<plan, run, args, ret, range_vars, current_id, cnt,
                   batch_messages, idx, handled, start_messages, prev>>
    /\ UNCHANGED <<dl_vars, disk, env_vars, messages, videos>>

\* End of the batch where the periodic save_database raises: the batch
\* handler counts a retry (retry_count is not reset) and either breaks or
\* sleeps 2 * BATCH_DELAY and goes on at the cursor the batch left.
BatchEndRaises ==
    /\ pc = "process"
    /\ idx > Len(batch_messages)
    /\ retry_count' = retry_count + 1
    /\ since_save' = IF retry_count + 1 >= MAX_RETRIES
                        THEN since_save ELSE Tick(2 * MESSAGES_BATCH_DELAY)
    /\ last_sleep' = IF retry_count + 1 >= MAX_RETRIES THEN 0 ELSE 2 * MESSAGES_BATCH_DELAY
    /\ pc' = IF retry_count + 1 >= MAX_RETRIES THEN "final" ELSE "loop"
    /\ UNCHANGED <<plan, run, args, ret, range_vars, current_id, cnt, batch_messages,
                   idx, handled, start_messages, prev, batch_floods, recovered>>
    /\ UNCHANGED <<dl_vars, disk, env_vars, db_vars>>

\* After the loop: final save, statistics, return True.
FinalSave ==
    /\ pc = "final"
    /\ persisted' = Snapshot
    /\ since_save' = 0
    /\ last_sleep' = 0
    /\ ret' = Some(TRUE)
    /\ pc' = "done"
    /\ UNCHANGED <<plan, run, args, range_vars, current_id, retry_count, cnt,
                   batch_messages, idx, handled, start_messages, prev, batch_floods, recovered>>
    /\ UNCHANGED <<dl_vars, disk, env_vars, messages, videos>>

\* The ids of the messages an administrator may delete between two calls.
Deletable == {3}

\* Between two calls a message is deleted from the channel (once); the
\* finished call is over and no call is running.
RemoteDelete(id) ==
    /\ pc = "done"
    /\ plan # << >>
    /\ ~remote_changed
    /\ id \in Deletable \cap DOMAIN remote
    /\ remote' = [i \in DOMAIN remote \ {id} |-> remote[i]]
    /\ remote_changed' = TRUE
    /\ pc' = "idle"
    /\ UNCHANGED <<plan, run, args, ret, range_vars, current_id, retry_count, cnt,
                   batch_messages, idx, handled, start_messages, prev, batch_floods, recovered,
                   since_save, last_sleep>>
    /\ UNCHANGED <<messages_batch_size, aux_vars, dl_vars, disk, db_vars>>

\* The ids of the messages that may be edited or viewed between two calls.
Editable == {3}

\* Between two calls the channel changes at one message (once): its text is
\* edited (text, raw_text and edit_date change) or its counters change
\* (views, forwards, reactions).
RemoteEdit(id, field) ==
    /\ pc = "done"
    /\ plan # << >>
    /\ ~remote_changed
    /\ id \in Editable \cap DOMAIN remote
    /\ remote' = IF field = "text" THEN [remote EXCEPT ![id].text = 1]
                                    ELSE [remote EXCEPT ![id].views = 1]
    /\ remote_changed' = TRUE
    /\ pc' = "idle"
    /\ UNCHANGED <<plan, run, args, ret, range_vars, current_id, retry_count, cnt,
                   batch_messages, idx, handled, start_messages, prev, batch_floods, recovered,
                   since_save, last_sleep>>
    /\ UNCHANGED <<messages_batch_size, aux_vars, dl_vars, disk, db_vars>>

\* ---------------------------------------------------- save_channel_users

\* What client.get_participants may return: some of the users, each with the
\* current values of its profile fields (username, names, flags).
Participants == UNION {[S -> 1..MaxProfile] : S \in SUBSET (1..MaxUser)}

\* user_dict as built from a participant; last_seen is the time of the call.
UserDict(profile, now) == [profile |-> profile, last_seen |-> now]

\* Mutant: first_seen is set anew on every save.
FirstSeen_overwritten(store, id, now) == now

\* user_dict['first_seen']: the stored value if the user is stored, else now.
FirstSeen(store, id, now) ==
    IF id \in DOMAIN store THEN store[id].first_seen ELSE now

\* One iteration of the loop over the participants: update in place or add.
Upsert(store, id, profile, now) ==
    (id :> [profile |-> UserDict(profile, now).profile,
            last_seen |-> UserDict(profile, now).last_seen,
            first_seen |-> FirstSeen(store, id, now)]) @@ store

\* The loop over the participants in S.
RECURSIVE UpsertAll(_, _, _, _)
UpsertAll(store, fetch, S, now) ==
    IF S = {} THEN store
    ELSE LET id == Min(S)
         IN  UpsertAll(Upsert(store, id, fetch[id], now), fetch, S \ {id}, now)

\* One call of save_channel_users. fetch is what get_participants returns;
\* done are the participants processed before an exception ends the loop
\* (all of them when no exception occurs). Without an exception the store is
\* saved and the call returns True; with one (ok false: raised by
\* get_participants or inside the loop) it returns False without saving.
SaveChannelUsers(fetch, done, ok) ==
    /\ pc = "idle" /\ dl_pc = "idle"
    /\ users_now < MaxUserRuns
    /\ done \subseteq DOMAIN fetch
    /\ ok => done = DOMAIN fetch
    /\ users_now' = users_now + 1
    /\ users' = UpsertAll(users, fetch, done, users_now + 1)
    /\ users_persisted' = IF ok THEN users' ELSE users_persisted
    /\ users_fetch' = [id \in done |-> fetch[id]]
    /\ users_ret' = Some(ok)
    /\ UNCHANGED <<remote, remote_changed, messages_batch_size, equiv_vars, video_vars, export_vars, load_vars,
                   session_vars>>
    /\ UNCHANGED <<dl_vars, disk, db_vars, crawl_vars>>

NoUsers ==
    /\ users = << >>
    /\ users_persisted = << >>
    /\ users_now = 0
    /\ users_fetch = << >>
    /\ users_ret = None

\* ---------------------------------------------- export_individual_messages

\* The stored messages of the active channel: any set of ids, each message
\* with a grouped_id or without one (0).
ExportStores == UNION {[S -> 0..MaxGroup] : S \in SUBSET (1..MaxExportId)}

\* sorted(messages.items(), key=lambda x: int(x[1]['id']))
RECURSIVE Sorted(_)
Sorted(S) == IF S = {} THEN << >> ELSE <<Min(S)>> \o Sorted(S \ {Min(S)})

\* get_media_group_messages: the stored messages with this grouped_id
GroupMessages(store, g) == {i \in DOMAIN store : store[i] = g}

\* The id in the file name: that of the first message of the group.
FileOf(store, g) == Min(GroupMessages(store, g))

\* Mutant: an exported group is not remembered.
MarkProcessed_forgotten(groups, g) == groups

\* processed_groups.add(group_id)
MarkProcessed(groups, g) == groups \cup {g}

ZeroExportCounts == [exported_count |-> 0, skipped_count |-> 0, error_count |-> 0]

NoExport ==
    /\ ex_pc = "idle"
    /\ ex_store = << >>
    /\ ex_todo = << >>
    /\ processed_groups = {}
    /\ ex_count = ZeroExportCounts
    /\ ex_files = << >>
    /\ ex_writes = [g \in 1..MaxGroup |-> 0]
    /\ ex_failed = {}
    /\ ex_ret = None

\* Entry of export_individual_messages: without messages return
\* success = False, else create the directory and sort the messages.
ExportCall ==
    /\ ex_pc = "idle"
    /\ ex_todo' = Sorted(DOMAIN ex_store)
    /\ ex_pc' = IF ex_store = << >> THEN "done" ELSE "loop"
    /\ ex_ret' = IF ex_store = << >> THEN Some(FALSE) ELSE None
    /\ UNCHANGED <<ex_store, processed_groups, ex_count, ex_files, ex_writes, ex_failed>>
    /\ UNCHANGED <<remote, remote_changed, messages_batch_size, equiv_vars, video_vars, users_vars, load_vars,
                   session_vars>>
    /\ UNCHANGED <<dl_vars, disk, db_vars, crawl_vars>>

\* One iteration for a message whose group is in processed_groups: skip.
ExportSkip ==
    /\ ex_pc = "loop" /\ ex_todo # << >>
    /\ ex_store[Head(ex_todo)] # 0
    /\ ex_store[Head(ex_todo)] \in processed_groups
    /\ ex_count' = [ex_count EXCEPT !.skipped_count = @ + 1]
    /\ ex_todo' = Tail(ex_todo)
    /\ UNCHANGED <<ex_pc, ex_store, processed_groups, ex_files, ex_writes, ex_failed, ex_ret>>
    /\ UNCHANGED <<remote, remote_changed, messages_batch_size, equiv_vars, video_vars, users_vars, load_vars,
                   session_vars>>
    /\ UNCHANGED <<dl_vars, disk, db_vars, crawl_vars>>

\* One iteration for a message whose group is not in processed_groups: write
\* the combined file of the group, count it and remember the group. outcome
\* is "ok", or where an exception ends the iteration: "before" the file is
\* opened (building the content) or "during" the write (the file exists);
\* the handler counts the error and the loop goes on.
ExportGroup(outcome) ==
    /\ ex_pc = "loop" /\ ex_todo # << >>
    /\ ex_store[Head(ex_todo)] # 0
    /\ ex_store[Head(ex_todo)] \notin processed_groups
    /\ LET g == ex_store[Head(ex_todo)]
           file == FileOf(ex_store, g)
       IN  /\ ex_files' = CASE outcome = "ok" ->
                                  (file :> GroupMessages(ex_store, g)) @@ ex_files
                            [] outcome = "during" -> (file :> {}) @@ ex_files
                            [] OTHER -> ex_files
           /\ ex_writes' = IF outcome = "before" THEN ex_writes
                           ELSE [ex_writes EXCEPT ![g] = @ + 1]
           /\ processed_groups' = IF outcome = "ok"
                                     THEN MarkProcessed(processed_groups, g)
                                     ELSE processed_groups
           /\ ex_failed' = IF outcome = "ok" THEN ex_failed ELSE ex_failed \cup {g}
    /\ ex_count' = IF outcome = "ok"
                      THEN [ex_count EXCEPT !.exported_count = @ + 1]
                      ELSE [ex_count EXCEPT !.error_count = @ + 1]
    /\ ex_todo' = Tail(ex_todo)
    /\ UNCHANGED <<ex_pc, ex_store, ex_ret>>
    /\ UNCHANGED <<remote, remote_changed, messages_batch_size, equiv_vars, video_vars, users_vars, load_vars,
                   session_vars>>
    /\ UNCHANGED <<dl_vars, disk, db_vars, crawl_vars>>

\* One iteration for a message without a group: write its own file.
ExportSingle(outcome) ==
    /\ ex_pc = "loop" /\ ex_todo # << >>
    /\ ex_store[Head(ex_todo)] = 0
    /\ ex_files' = CASE outcome = "ok" -> (Head(ex_todo) :> {Head(ex_todo)}) @@ ex_files
                     [] outcome = "during" -> (Head(ex_todo) :> {}) @@ ex_files
                     [] OTHER -> ex_files
    /\ ex_count' = IF outcome = "ok"
                      THEN [ex_count EXCEPT !.exported_count = @ + 1]
                      ELSE [ex_count EXCEPT !.error_count = @ + 1]
    /\ ex_todo' = Tail(ex_todo)
    /\ UNCHANGED <<ex_pc, ex_store, processed_groups, ex_writes, ex_failed, ex_ret>>
    /\ UNCHANGED <<remote, remote_changed, messages_batch_size, equiv_vars, video_vars, users_vars, load_vars,
                   session_vars>>
    /\ UNCHANGED <<dl_vars, disk, db_vars, crawl_vars>>

\* After the loop: write the summary and return success = True with the counts.
ExportFinish ==
    /\ ex_pc = "loop" /\ ex_todo = << >>
    /\ ex_pc' = "done"
    /\ ex_ret' = Some(TRUE)
    /\ UNCHANGED <<ex_store, ex_todo, processed_groups, ex_count, ex_files, ex_writes,
                   ex_failed>>
    /\ UNCHANGED <<remote, remote_changed, messages_batch_size, equiv_vars, video_vars, users_vars, load_vars,
                   session_vars>>
    /\ UNCHANGED <<dl_vars, disk, db_vars, crawl_vars>>

ExportOutcomes == {"ok", "before", "during"}

\* ------------------------------------------------------------ load_database

\* The top-level keys of the database.
Keys == {"users", "last_login", "sessions", "active_channel", "messages", "videos"}

\* The value a new database gives a key: {} for a mapping, None for the rest.
Fresh(k) == IF k \in {"last_login", "active_channel"} THEN "null" ELSE "empty"

\* src.database.create_new_database
NewDatabase == [k \in Keys |-> Fresh(k)]

\* ChannelSaver.create_new_database
NewDatabase_class == [k \in Keys \ {"messages", "videos"} |-> Fresh(k)]

\* What json.load can return for a file that save_database wrote: any of the
\* keys, each fresh or with data.
Databases == UNION {[S -> {"fresh", "data"}] : S \in SUBSET Keys}

Content(d) == [k \in DOMAIN d |-> IF d[k] = "fresh" THEN Fresh(k) ELSE "data"]

\* The database file: missing; valid JSON; text that is not JSON
\* (json.JSONDecodeError); bytes that are not text (UnicodeDecodeError); a
\* file that cannot be opened for reading (PermissionError).
Files ==
    {[kind |-> k, db |-> << >>] : k \in {"missing", "corrupt", "undecodable", "unreadable"}}
        \cup {[kind |-> "valid", db |-> Content(d)] : d \in Databases}

NoLoad ==
    /\ ld_impl = "module"
    /\ ld_file = [kind |-> "missing", db |-> << >>]
    /\ ld_writable = TRUE
    /\ ld_file0 = ld_file
    /\ ld_ret = None

\* load_database on a file that json.load can read: return its content.
LoadExisting ==
    /\ ld_ret = None
    /\ ld_file.kind = "valid"
    /\ ld_ret' = Some([raised |-> FALSE, db |-> ld_file.db])
    /\ UNCHANGED <<ld_impl, ld_file, ld_writable, ld_file0>>
    /\ UNCHANGED <<remote, remote_changed, messages_batch_size, equiv_vars, video_vars, users_vars, export_vars,
                   session_vars>>
    /\ UNCHANGED <<dl_vars, disk, db_vars, crawl_vars>>

\* load_database on a missing file, or on one where json.load raises
\* json.JSONDecodeError: create_new_database, which saves the new database
\* and returns it; the open for writing in save_database may raise.
LoadCreates ==
    /\ ld_ret = None
    /\ ld_file.kind \in {"missing", "corrupt"}
    /\ LET db == IF ld_impl = "module" THEN NewDatabase ELSE NewDatabase_class
       IN  IF ld_writable
              THEN /\ ld_file' = [kind |-> "valid", db |-> db]
                   /\ ld_ret' = Some([raised |-> FALSE, db |-> db])
              ELSE /\ ld_file' = ld_file
                   /\ ld_ret' = Some([raised |-> TRUE, db |-> << >>])
    /\ UNCHANGED <<ld_impl, ld_writable, ld_file0>>
    /\ UNCHANGED <<remote, remote_changed, messages_batch_size, equiv_vars, video_vars, users_vars, export_vars,
                   session_vars>>
    /\ UNCHANGED <<dl_vars, disk, db_vars, crawl_vars>>

\* load_database on a file where open or json.load raises anything but
\* json.JSONDecodeError: no handler, the exception leaves load_database.
LoadRaises ==
    /\ ld_ret = None
    /\ ld_file.kind \in {"undecodable", "unreadable"}
    /\ ld_ret' = Some([raised |-> TRUE, db |-> << >>])
    /\ UNCHANGED <<ld_impl, ld_file, ld_writable, ld_file0>>
    /\ UNCHANGED <<remote, remote_changed, messages_batch_size, equiv_vars, video_vars, users_vars, export_vars,
                   session_vars>>
    /\ UNCHANGED <<dl_vars, disk, db_vars, crawl_vars>>

\* ---------------------------------------------------------------- sessions

Phones == 1..MaxPhone

\* The phones whose session is active.
ActivePhones(store) == {q \in DOMAIN store : store[q].active}

\* Mutant: the other sessions are not deactivated.
SaveSession_keepOthers(store, p) == (p :> [active |-> TRUE]) @@ store

\* save_session: the session of p is written with active = True and every
\* other session is set to active = False.
SaveSession(store, p) ==
    (p :> [active |-> TRUE]) @@ [q \in DOMAIN store |-> [active |-> FALSE]]

NoSessions ==
    /\ sessions = << >>
    /\ sessions_persisted = << >>
    /\ phone = None
    /\ ses_last = [op |-> "none", phone |-> 0]

\* login past restore_session: self.phone is set from the input, then the
\* sign-in either raises (ok false, nothing else changes) or is followed by
\* save_session, which saves the database.
Login(p, ok) ==
    /\ phone' = Some(p)
    /\ sessions' = IF ok THEN SaveSession(sessions, p) ELSE sessions
    /\ sessions_persisted' = IF ok THEN sessions' ELSE sessions_persisted
    /\ ses_last' = [op |-> IF ok THEN "save" ELSE "failed", phone |-> p]

\* restore_session with an active session: self.phone becomes its phone;
\* if the client is authorized save_session follows, else nothing is written.
RestoreSession(authorized) ==
    /\ ActivePhones(sessions) # {}
    /\ \E p \in ActivePhones(sessions) :
          /\ phone' = Some(p)
          /\ sessions' = IF authorized THEN SaveSession(sessions, p) ELSE sessions
          /\ sessions_persisted' = IF authorized THEN sessions' ELSE sessions_persisted
          /\ ses_last' = [op |-> IF authorized THEN "save" ELSE "failed", phone |-> p]

\* switch_session to a saved phone: the active flags are rewritten, then the
\* database is saved only if the session is still authorized; otherwise the
\* call ends with 'Session is no longer valid!'.
SwitchSession(p, authorized) ==
    /\ p \in DOMAIN sessions
    /\ sessions' = [q \in DOMAIN sessions |-> [active |-> q = p]]
    /\ phone' = Some(p)
    /\ sessions_persisted' = IF authorized THEN sessions' ELSE sessions_persisted
    /\ ses_last' = [op |-> "switch", phone |-> p]

\* cleanup_sessions: the sessions that are not active and not authorized are
\* removed and the database is saved, if the user confirms.
CleanupSessions(invalid) ==
    /\ invalid # {}
    /\ invalid \subseteq DOMAIN sessions \ ActivePhones(sessions)
    /\ sessions' = [q \in DOMAIN sessions \ invalid |-> sessions[q]]
    /\ sessions_persisted' = sessions'
    /\ ses_last' = [op |-> "cleanup", phone |-> 0]
    /\ UNCHANGED phone

\* Menu choice 15: the session of self.phone is deleted, the database is
\* saved and the program ends; self.phone is unset in the next process.
Logout ==
    /\ phone # None
    /\ sessions' = [q \in DOMAIN sessions \ phone |-> sessions[q]]
    /\ sessions_persisted' = sessions'
    /\ phone' = None
    /\ ses_last' = [op |-> "logout", phone |-> 0]

\* The program ends and starts again: the database is loaded from the file.
Restart ==
    /\ sessions # sessions_persisted \/ phone # None
    /\ sessions' = sessions_persisted
    /\ phone' = None
    /\ UNCHANGED sessions_persisted
    /\ ses_last' = [op |-> "restart", phone |-> 0]

SessionStep ==
    /\ \/ \E p \in Phones, ok \in BOOLEAN : Login(p, ok)
       \/ \E authorized \in BOOLEAN : RestoreSession(authorized)
       \/ \E p \in Phones, authorized \in BOOLEAN : SwitchSession(p, authorized)
       \/ \E invalid \in SUBSET Phones : CleanupSessions(invalid)
       \/ Logout
       \/ Restart
    /\ UNCHANGED <<remote, remote_changed, messages_batch_size, equiv_vars, video_vars, users_vars, export_vars,
                   load_vars>>
    /\ UNCHANGED <<dl_vars, disk, db_vars, crawl_vars>>

\* ----------------------------------------------- download_video_messages

\* The counters downloaded, skipped, errors at the start of a call.
ZeroVideoCounts == [downloaded |-> 0, skipped |-> 0, errors |-> 0]

\* No call of download_video_messages was made.
NoVideo ==
    /\ vd_pc = "idle"
    /\ vd_todo = << >>
    /\ vd_runs = 0
    /\ vd_cnt = ZeroVideoCounts
    /\ vd_ret = None
    /\ vd_exit = "none"
    /\ vd_last = [id |-> 0, outcome |-> "none", slept |-> 0]
    /\ vd_removed = {}

\* The messages the video filter of the listing selects.
VideoIds == {i \in DOMAIN remote : remote[i].media = "video"}

\* filename = f"video_{message.id}_{date}": the names of the video download
\* are apart from the names f"media_{message.id}_{date}" of the crawl, which
\* the model numbers 1..MaxId.
VideoFilename(id) == MaxId + id

\* Mutant: a stored record is enough for a skip, whether its file exists or not.
AlreadyDownloaded_recordOnly(store, d, id) ==
    IF id \in DOMAIN store THEN store[id].file_path # None ELSE FALSE

\* if msg_id in db['videos'][channel_id] and ....get('file_path'):
\*     if os.path.exists(existing_path): skip
AlreadyDownloaded(store, d, id) ==
    IF id \in DOMAIN store
       THEN (IF store[id].file_path # None
                THEN Exists(d, Val(store[id].file_path)) ELSE FALSE)
       ELSE FALSE

\* Mutant: the record is written whatever the download returned.
VideoRecord_always(store, id, result, now) ==
    (id :> [file_path |-> result.file_path, download_date |-> now]) @@ store

\* if download_result['success']: db['videos'][channel_id][msg_id] = video_info
VideoRecord(store, id, result, now) ==
    IF result.success
       THEN (id :> [file_path |-> result.file_path, download_date |-> now]) @@ store
       ELSE store

\* Entry of download_video_messages up to the listing loop: the probe for a
\* first video (probe_ok false: it raises, return False), "No videos found"
\* (return False), else the listing starts. limit is None or a number.
VideoCall(limit, probe_ok) ==
    /\ pc \in {"idle", "done"}
    /\ vd_pc \in {"idle", "done"}
    /\ dl_pc = "idle"
    /\ vd_runs < MaxVideoRuns
    /\ vd_runs' = vd_runs + 1
    /\ vd_cnt' = ZeroVideoCounts
    /\ vd_last' = [id |-> 0, outcome |-> "none", slept |-> 0]
    /\ IF probe_ok /\ VideoIds # {}
          THEN /\ vd_pc' = "list"
               /\ vd_todo' = Newest(VideoIds, IF limit = None
                                                 THEN Cardinality(VideoIds) ELSE Val(limit))
               /\ vd_ret' = None
               /\ vd_exit' = "none"
          ELSE /\ vd_pc' = "done"
               /\ vd_todo' = << >>
               /\ vd_ret' = Some(FALSE)
               /\ vd_exit' = IF probe_ok THEN "no_videos" ELSE "probe_raised"
    /\ UNCHANGED vd_removed
    /\ UNCHANGED <<remote, remote_changed, messages_batch_size, equiv_vars, users_vars, export_vars,
                   load_vars, session_vars>>
    /\ UNCHANGED <<dl_vars, disk, db_vars, crawl_vars>>

\* The listing iteration raises: the outer handler logs and returns False.
VideoListRaises ==
    /\ vd_pc = "list"
    /\ vd_pc' = "done"
    /\ vd_todo' = << >>
    /\ vd_ret' = Some(FALSE)
    /\ vd_exit' = "listing_raised"
    /\ UNCHANGED <<vd_runs, vd_cnt, vd_last, vd_removed>>
    /\ UNCHANGED <<remote, remote_changed, messages_batch_size, equiv_vars, users_vars, export_vars,
                   load_vars, session_vars>>
    /\ UNCHANGED <<dl_vars, disk, db_vars, crawl_vars>>

\* The next video is already downloaded: skipped += 1, continue.
VideoSkip ==
    /\ vd_pc = "list"
    /\ vd_todo # << >>
    /\ AlreadyDownloaded(videos, disk, Head(vd_todo))
    /\ vd_cnt' = [vd_cnt EXCEPT !.skipped = @ + 1]
    /\ vd_todo' = Tail(vd_todo)
    /\ vd_last' = [id |-> Head(vd_todo), outcome |-> "skipped", slept |-> 0]
    /\ UNCHANGED <<vd_pc, vd_runs, vd_ret, vd_exit, vd_removed>>
    /\ UNCHANGED <<remote, remote_changed, messages_batch_size, equiv_vars, users_vars, export_vars,
                   load_vars, session_vars>>
    /\ UNCHANGED <<dl_vars, disk, db_vars, crawl_vars>>

\* The handling of the next video raises before the download is called
\* (while video_info or the filename is built): errors += 1, continue.
VideoItemRaises ==
    /\ vd_pc = "list"
    /\ vd_todo # << >>
    /\ vd_cnt' = [vd_cnt EXCEPT !.errors = @ + 1]
    /\ vd_todo' = Tail(vd_todo)
    /\ vd_last' = [id |-> Head(vd_todo), outcome |-> "raised", slept |-> 0]
    /\ UNCHANGED <<vd_pc, vd_runs, vd_ret, vd_exit, vd_removed>>
    /\ UNCHANGED <<remote, remote_changed, messages_batch_size, equiv_vars, users_vars, export_vars,
                   load_vars, session_vars>>
    /\ UNCHANGED <<dl_vars, disk, db_vars, crawl_vars>>

\* The next video is not downloaded yet: call download_media_safely.
VideoStart ==
    /\ vd_pc = "list"
    /\ vd_todo # << >>
    /\ ~AlreadyDownloaded(videos, disk, Head(vd_todo))
    /\ dl_pc = "idle"
    /\ DownloadEnter(VideoFilename(Head(vd_todo)))
    /\ vd_pc' = "media"
    /\ UNCHANGED <<vd_todo, vd_runs, vd_cnt, vd_ret, vd_exit, vd_last, vd_removed>>
    /\ UNCHANGED <<remote, remote_changed, messages_batch_size, equiv_vars, users_vars, export_vars,
                   load_vars, session_vars>>
    /\ UNCHANGED <<disk, db_vars, crawl_vars>>

\* download_media_safely returned: on success write the record, count
\* downloaded and save the database if more than SAVE_INTERVAL passed since
\* the last save (elapsed); on failure count errors. Then sleep
\* MEDIA_DOWNLOAD_DELAY.
VideoFinish(elapsed) ==
    /\ vd_pc = "media"
    /\ dl_pc = "returned"
    /\ videos' = VideoRecord(videos, Head(vd_todo), dl_result, vd_runs)
    /\ vd_cnt' = IF dl_result.success
                    THEN [vd_cnt EXCEPT !.downloaded = @ + 1]
                    ELSE [vd_cnt EXCEPT !.errors = @ + 1]
    /\ persisted' = IF dl_result.success /\ elapsed
                       THEN [messages |-> messages, videos |-> videos']
                       ELSE persisted
    /\ vd_last' = [id |-> Head(vd_todo),
                   outcome |-> IF dl_result.success THEN "downloaded" ELSE "failed",
                   slept |-> MEDIA_DOWNLOAD_DELAY]
    /\ vd_todo' = Tail(vd_todo)
    /\ vd_pc' = "list"
    /\ DownloadIdle
    /\ UNCHANGED <<vd_runs, vd_ret, vd_exit, vd_removed>>
    /\ UNCHANGED <<remote, remote_changed, messages_batch_size, equiv_vars, users_vars, export_vars,
                   load_vars, session_vars>>
    /\ UNCHANGED <<disk, messages, crawl_vars>>

\* The listing is exhausted: final save, statistics, return True.
VideoFinal ==
    /\ vd_pc = "list"
    /\ vd_todo = << >>
    /\ persisted' = Snapshot
    /\ vd_pc' = "done"
    /\ vd_ret' = Some(TRUE)
    /\ vd_exit' = "completed"
    /\ UNCHANGED <<vd_todo, vd_runs, vd_cnt, vd_last, vd_removed>>
    /\ UNCHANGED <<remote, remote_changed, messages_batch_size, equiv_vars, users_vars, export_vars,
                   load_vars, session_vars>>
    /\ UNCHANGED <<dl_vars, disk, messages, videos, crawl_vars>>

\* Between two operations the user removes a downloaded video file (once).
FileRemoved(f) ==
    /\ pc \in {"idle", "done"}
    /\ vd_pc \in {"idle", "done"}
    /\ dl_pc = "idle"
    /\ vd_removed = {}
    /\ f \in disk.full
    /\ disk' = Remove(disk, f)
    /\ vd_removed' = {f}
    /\ UNCHANGED <<vd_pc, vd_todo, vd_runs, vd_cnt, vd_ret, vd_exit, vd_last>>
    /\ UNCHANGED <<remote, remote_changed, messages_batch_size, equiv_vars, users_vars, export_vars,
                   load_vars, session_vars>>
    /\ UNCHANGED <<dl_vars, db_vars, crawl_vars>>

VideoStep ==
    \/ \E limit \in {None, Some(1)}, probe_ok \in BOOLEAN : VideoCall(limit, probe_ok)
    \/ VideoListRaises
    \/ VideoSkip
    \/ VideoItemRaises
    \/ VideoStart
    \/ \E elapsed \in BOOLEAN : VideoFinish(elapsed)
    \/ VideoFinal
    \/ \E id \in 1..MaxVideoId : FileRemoved(VideoFilename(id))

\* ------------------------------------------------- the calls of the user

Opt(S) == {None} \cup {Some(v) : v \in S}

CallArgs(limit, force, lo, hi, recent, media) ==
    [limit |-> limit, force_redownload |-> force, min_id |-> lo, max_id |-> hi,
     recent_count |-> recent, download_media |-> media]

\* Calls over the full channel range or with one end given (with and without
\* media download), and calls with both ends given.
RangeCalls ==
    {CallArgs(None, FALSE, r[1], r[2], None, m) :
        m \in BOOLEAN,
        r \in {<<None, None>>, <<Some(2), None>>, <<None, Some(2)>>}} \cup
    {CallArgs(None, FALSE, Some(lo), Some(hi), None, FALSE) :
        lo \in 1..MaxId, hi \in 1..MaxId + 1}

\* Calls with recent_count, alone or together with an explicit range.
RecentCalls ==
    {CallArgs(None, FALSE, r[1], r[2], Some(n), FALSE) :
        n \in 0..MaxRecent, r \in {<<None, None>>, <<Some(1), Some(2)>>}}

\* Calls with a limit over the full channel range.
LimitCalls ==
    {CallArgs(Some(l), FALSE, None, None, None, FALSE) : l \in 1..MaxLimit}

Calls == RangeCalls \cup RecentCalls \cup LimitCalls

\* Calls repeated over the same range: ids 2 and 3, a message without media
\* and one with a video.
RerunCalls ==
    {CallArgs(None, f, Some(2), Some(4), None, m) : f \in BOOLEAN, m \in BOOLEAN}

\* A call whose explicit range is empty or reversed.
InvalidCalls ==
    {CallArgs(None, FALSE, Some(lo), Some(2), None, TRUE) : lo \in 2..3}

\* The user makes one call, or two calls over the same range, or a call
\* followed by one with an invalid range.
Plans ==
    {<<c>> : c \in Calls} \cup
    {p \in {<<c1, c2>> : c1 \in RerunCalls, c2 \in RerunCalls} :
        /\ p[1].min_id = p[2].min_id /\ p[1].max_id = p[2].max_id
        /\ ~p[1].force_redownload} \cup
    {<<CallArgs(None, FALSE, Some(2), Some(4), None, FALSE), c>> : c \in InvalidCalls}

NoCrawl ==
    /\ run = 0
    /\ pc = "idle"
    /\ args = CallArgs(None, FALSE, None, None, None, FALSE)
    /\ ret = None
    /\ first_message = None
    /\ last_message = None
    /\ fetch_min_id = 0
    /\ fetch_max_id = 0
    /\ current_id = 0
    /\ retry_count = 0
    /\ batch_floods = 0
    /\ since_save = 0
    /\ last_sleep = 0
    /\ cnt = ZeroCounters
    /\ batch_messages = << >>
    /\ idx = 1
    /\ handled = << >>
    /\ start_messages = << >>
    /\ prev = None

NoCall == NoCrawl /\ recovered = None

EmptyStore ==
    /\ messages = << >>
    /\ videos = << >>
    /\ persisted = [messages |-> << >>, videos |-> << >>]
    /\ disk = [full |-> {}, empty |-> {}]

NoDownload ==
    /\ dl_pc = "idle"
    /\ dl_filename = 1
    /\ dl_retry_count = 0
    /\ dl_result = InitialResult
    /\ dl_floods = 0
    /\ dl_outcomes = << >>
    /\ dl_last = None
    /\ dl_lastFailure = None
    /\ dl_slept = 0
    /\ dl_backoffs = << >>

\* ------------------------ the two texts of the per-message step

\* save_channel_messages exists as a function of src/messages.py ("module")
\* and as a method of ChannelSaver in saver.py ("class"). The two texts
\* differ in one statement: the media step of the class starts with
\* os.makedirs(VIDEO_TEMP_DIR, exist_ok=True), inside the try block of the
\* media step. The per-message step of each text is computed here as a
\* function of the store, the message and the outcomes it meets, and both
\* are run side by side on the same messages and the same outcomes.
Implementations == {"module", "class"}

EmptyDisk == [full |-> {}, empty |-> {}]

ZeroState == [messages |-> << >>, videos |-> << >>, cnt |-> ZeroCounters]

\* No call is made on the two texts.
NoEquiv ==
    /\ eq_st = [i \in Implementations |-> ZeroState]
    /\ eq_disk = EmptyDisk
    /\ eq_args = [force_redownload |-> FALSE, download_media |-> FALSE]
    /\ eq_todo = << >>
    /\ eq_run = 0
    /\ eq_last = [i \in Implementations |-> "none"]

\* Mutant: os.makedirs stands before the try block of the media step, so its
\* exception reaches the handler of the per-message loop.
StepOutcome_makedirsOutside(impl, wants, need, e) ==
    CASE e.build_raises -> "error"
      [] ~wants -> "plain"
      [] impl = "class" /\ ~e.dir_ok -> "error"
      [] e.media_raises -> "raised"
      [] ~need -> "present"
      [] e.result.success -> "downloaded"
      [] OTHER -> "failed"

\* The way one message is handled: error (the per-message handler caught an
\* exception), plain (no media step), raised (the handler of the media step
\* caught an exception; in the class os.makedirs is its first source),
\* present (the stored file is kept), downloaded or failed (the engine was
\* called).
StepOutcome(impl, wants, need, e) ==
    CASE e.build_raises -> "error"
      [] ~wants -> "plain"
      [] impl = "class" /\ ~e.dir_ok -> "raised"
      [] e.media_raises -> "raised"
      [] ~need -> "present"
      [] e.result.success -> "downloaded"
      [] OTHER -> "failed"

\* The store and the counters after the message id was handled with the
\* given outcome.
StepState(st, id, m, a, outcome, result, now) ==
    IF outcome = "error"
       THEN [st EXCEPT !.cnt.errors = @ + 1]
       ELSE LET path == CASE outcome = "downloaded" -> result.file_path
                          [] outcome = "present" -> ExistingMediaPath(st.messages, id)
                          [] OTHER -> None
                dict == [MessageDict(m, now) EXCEPT !.media_file_path = path]
                dec == Decision(st.messages, id, dict, a.force_redownload, a.download_media)
                c == Counted(st.cnt, dec)
            IN  [messages |-> Reconciled(st.messages, id, dict, a.force_redownload,
                                         a.download_media),
                 videos |-> IF outcome = "downloaded"
                               THEN MessageVideoRecord(st.videos, id, result, m.media, now)
                               ELSE st.videos,
                 cnt |-> CASE outcome = "downloaded" -> [c EXCEPT !.media_downloaded = @ + 1]
                           [] outcome \in {"failed", "raised"} -> [c EXCEPT !.media_errors = @ + 1]
                           [] outcome = "present" -> [c EXCEPT !.media_skipped = @ + 1]
                           [] OTHER -> c]

\* The per-message step of one text on the directory d.
MessageStepOutcome(impl, st, d, id, m, a, e) ==
    StepOutcome(impl, a.download_media /\ m.media # "none",
                NeedsDownload(st.messages, d, id, a.force_redownload), e)

\* A call starts on both texts: the counters are zero, the messages of the
\* channel are handled newest first.
EquivCall(force, media) ==
    /\ eq_todo = << >>
    /\ eq_run < MaxEquivRuns
    /\ eq_run' = eq_run + 1
    /\ eq_args' = [force_redownload |-> force, download_media |-> media]
    /\ eq_todo' = Newest(DOMAIN remote, MaxId)
    /\ eq_st' = [i \in Implementations |-> [eq_st[i] EXCEPT !.cnt = ZeroCounters]]
    /\ eq_last' = [i \in Implementations |-> "none"]
    /\ UNCHANGED eq_disk
    /\ UNCHANGED <<remote, remote_changed, messages_batch_size, users_vars, export_vars,
                   load_vars, session_vars, video_vars>>
    /\ UNCHANGED <<dl_vars, disk, db_vars, crawl_vars>>

\* Both texts handle the next message under the same outcomes: whether the
\* building of the record raises, whether the media step raises on its own,
\* whether VIDEO_TEMP_DIR exists or can be created (dir_ok), and whether the
\* transfer succeeds (ok). os.makedirs(..., exist_ok=True) raises only when
\* the directory does not exist and cannot be created; then no file is in it
\* and no transfer can write to it.
EquivProcess(build_raises, media_raises, dir_ok, ok) ==
    /\ eq_todo # << >>
    /\ LET id == Head(eq_todo)
           d == IF dir_ok THEN eq_disk ELSE EmptyDisk
           result == IF dir_ok /\ ok
                        THEN [success |-> TRUE, file_path |-> Some(id), error |-> None]
                        ELSE InitialResult
           e == [build_raises |-> build_raises, media_raises |-> media_raises,
                 dir_ok |-> dir_ok, result |-> result]
           out == [i \in Implementations |->
                      MessageStepOutcome(i, eq_st[i], d, id, remote[id], eq_args, e)]
       IN  /\ eq_st' = [i \in Implementations |->
                           StepState(eq_st[i], id, remote[id], eq_args, out[i], result, eq_run)]
           /\ eq_last' = out
           /\ eq_disk' = IF out["module"] = "downloaded" THEN WriteFull(d, id) ELSE d
    /\ eq_todo' = Tail(eq_todo)
    /\ UNCHANGED <<eq_args, eq_run>>
    /\ UNCHANGED <<remote, remote_changed, messages_batch_size, users_vars, export_vars,
                   load_vars, session_vars, video_vars>>
    /\ UNCHANGED <<dl_vars, disk, db_vars, crawl_vars>>

\* ---------------------------------------------------------- specifications

\* A caller invokes download_media_safely for destination f.
MediaCall ==
    /\ pc = "idle"
    /\ dl_pc \in {"idle", "returned"}
    /\ \E f \in 1..MaxFile : DownloadEnter(f)
    /\ UNCHANGED <<disk, env_vars, db_vars, crawl_vars>>

\* Stand-alone calls of download_media_safely.
\* The components that are not running.
NoOther ==
    /\ NoUsers
    /\ NoExport
    /\ NoLoad
    /\ NoSessions
    /\ NoVideo
    /\ NoEquiv

InitMedia ==
    /\ NoDownload
    /\ EmptyStore
    /\ NoCall
    /\ NoOther
    /\ plan = << >>
    /\ remote = << >>
    /\ remote_changed = FALSE
    /\ messages_batch_size = 1

NextMedia == MediaCall \/ DownloadStep

SpecMedia == InitMedia /\ [][NextMedia]_vars

\* Stand-alone calls whose steps are eventually taken: the event loop resumes
\* the coroutine after every await (each sleep ends, and asyncio.wait_for
\* ends each transfer after MEDIA_DOWNLOAD_TIMEOUT at the latest). The
\* provider issues at most FloodCap flow-control signals per call. Whether
\* the loop goes on depends on the handler an outcome reaches and not on the
\* text of the exception, so every kind of outcome is enumerated with one
\* text, and a signal with the shortest and the longest wait.
DownloadStepLive ==
    \/ LoopFirstAttempt
    \/ LoopBackoff
    \/ LoopExhausted
    \/ TransferSucceeds
    \/ \E kind \in ExceptionKinds : TransferRaises(kind, IF kind = "timeout" THEN 0 ELSE 1)
    \/ \E kind \in UnusableKinds : TransferUnusable(kind, TRUE, 0)
    \/ \E w \in {1, MaxWait} : dl_floods < FloodCap /\ TransferFloodWait(w)

NextMediaLive == MediaCall \/ DownloadStepLive

SpecMediaLive == InitMedia /\ [][NextMediaLive]_vars /\ WF_vars(DownloadStepLive)

\* Stand-alone calls seen from the destination file: what an attempt leaves
\* on disk depends on whether the transfer reported a usable file and on
\* whether os.remove returns, so the attempts are enumerated with success
\* (with and without a size mismatch), every unusable result with and
\* without a removal that raises, and one exception that leaves the file as
\* it was.
DownloadStepFiles ==
    \/ LoopFirstAttempt
    \/ LoopBackoff
    \/ LoopExhausted
    \/ TransferSucceeds
    \/ TransferSucceedsMismatch
    \/ TransferRaises("timeout", 0)
    \/ \E kind \in UnusableKinds, removable \in BOOLEAN :
           TransferUnusable(kind, removable, IF removable THEN 0 ELSE 1)

NextMediaFiles == MediaCall \/ DownloadStepFiles

SpecMediaFiles == InitMedia /\ [][NextMediaFiles]_vars

CrawlStep ==
    \/ \E boundary_ok \in BOOLEAN, confirm \in BOOLEAN : CallSave(boundary_ok, confirm)
    \/ LoopExit
    \/ FetchBatch
    \/ FetchEmpty
    \/ \E k \in 0..1, flood \in BOOLEAN : FetchRaises(k, flood)
    \/ ProcessRaises
    \/ ProcessPlain
    \/ ProcessMediaPresent
    \/ ProcessMediaStart
    \/ ProcessMediaRaises
    \/ ProcessMediaFinish
    \/ \E elapsed \in BOOLEAN : BatchEnd(elapsed)
    \/ BatchEndRaises
    \/ FinalSave
    \/ \E id \in Deletable : RemoteDelete(id)
    \/ \E id \in Editable, field \in {"text", "views"} : RemoteEdit(id, field)

Next == CrawlStep \/ DownloadStep

\* Calls of save_channel_messages, starting from an empty store. A plan of
\* two calls runs with the smallest batch size, which splits the repeated
\* range into two batches.
Init ==
    /\ NoDownload
    /\ EmptyStore
    /\ NoCall
    /\ NoOther
    /\ plan \in Plans
    /\ remote \in Channels
    /\ remote_changed = FALSE
    /\ messages_batch_size \in 1..MaxBatch
    /\ Len(plan) > 1 => messages_batch_size = 1

Spec == Init /\ [][Next]_vars

\* Calls of save_channel_messages on both texts, starting from an empty store.
InitEquiv ==
    /\ NoDownload
    /\ EmptyStore
    /\ NoCall
    /\ NoOther
    /\ plan = << >>
    /\ remote \in Channels
    /\ remote_changed = FALSE
    /\ messages_batch_size = MaxBatch

NextEquiv ==
    \/ \E force \in BOOLEAN, media \in BOOLEAN : EquivCall(force, media)
    \/ \E build_raises \in BOOLEAN, media_raises \in BOOLEAN, dir_ok \in BOOLEAN,
          ok \in BOOLEAN : EquivProcess(build_raises, media_raises, dir_ok, ok)

SpecEquiv == InitEquiv /\ [][NextEquiv]_vars

\* One call of save_channel_messages over the whole channel or from min_id 2
\* upwards, without media download, in which the resets of retry_count are
\* followed: every batch can fail at its fetch or at its periodic save, any
\* number of times.
RetryCalls ==
    {CallArgs(None, FALSE, lo, None, None, FALSE) : lo \in {None, Some(2)}}

InitRetry ==
    /\ NoDownload
    /\ EmptyStore
    /\ NoCrawl
    /\ recovered = Some(0)
    /\ NoOther
    /\ plan \in {<<c>> : c \in RetryCalls}
    /\ remote \in Channels
    /\ remote_changed = FALSE
    /\ messages_batch_size \in 1..MaxBatch

NextRetry ==
    \/ \E boundary_ok \in BOOLEAN, confirm \in BOOLEAN : CallSave(boundary_ok, confirm)
    \/ LoopExit
    \/ FetchBatch
    \/ FetchEmpty
    \/ \E k \in 0..1, flood \in BOOLEAN : FetchRaises(k, flood)
    \/ ProcessRaises
    \/ ProcessPlain
    \/ \E elapsed \in BOOLEAN : BatchEnd(elapsed)
    \/ BatchEndRaises
    \/ FinalSave

SpecRetry == InitRetry /\ [][NextRetry]_vars

\* One call of save_channel_messages that runs to its end: over the whole
\* channel (with media download in batches of one message, or without) or
\* from min_id 2 upwards, on any channel. Every step of the call is
\* eventually taken: each remote request returns or raises, and the provider
\* issues finitely many flow-control signals.
LiveCalls ==
    {CallArgs(None, FALSE, None, None, None, m) : m \in BOOLEAN}
        \cup {CallArgs(None, FALSE, Some(2), None, None, FALSE)}

InitLive ==
    /\ NoDownload
    /\ EmptyStore
    /\ NoCall
    /\ NoOther
    /\ plan \in {<<c>> : c \in LiveCalls}
    /\ remote \in Channels
    /\ remote_changed = FALSE
    /\ messages_batch_size \in 1..MaxBatch
    /\ Head(plan).download_media => messages_batch_size = 1

NextLive ==
    \/ \E boundary_ok \in BOOLEAN, confirm \in BOOLEAN : CallSave(boundary_ok, confirm)
    \/ LoopExit
    \/ FetchBatch
    \/ FetchEmpty
    \/ \E k \in 0..1, flood \in BOOLEAN : FetchRaises(k, flood)
    \/ ProcessRaises
    \/ ProcessPlain
    \/ ProcessMediaStart
    \/ ProcessMediaRaises
    \/ ProcessMediaFinish
    \/ \E elapsed \in BOOLEAN : BatchEnd(elapsed)
    \/ BatchEndRaises
    \/ FinalSave
    \/ DownloadStep

SpecLive == InitLive /\ [][NextLive]_vars /\ WF_vars(NextLive)

\* Calls of download_video_messages, after the first of them possibly a
\* call of save_channel_messages with media download over the whole channel, on a
\* channel that is empty or holds a video or a photo at every id, starting
\* from an empty store. No operation
\* starts while another one runs.
VideoChannels ==
    {<< >>} \cup {[i \in 1..MaxVideoId |-> [RemoteMessage(i) EXCEPT !.media = m[i]]] :
                     m \in [1..MaxVideoId -> {"video", "photo"}]}

InitVideo ==
    /\ NoDownload
    /\ EmptyStore
    /\ NoCall
    /\ NoOther
    /\ plan \in {<< >>, <<CallArgs(None, FALSE, None, None, None, TRUE)>>}
    /\ remote \in VideoChannels
    /\ remote_changed = FALSE
    /\ messages_batch_size = MaxBatch

\* The two operations read only success and file_path of what
\* download_media_safely returns, so its attempts are enumerated with one
\* kind of failure.
VideoDownloadStep ==
    \/ LoopFirstAttempt
    \/ LoopBackoff
    \/ LoopExhausted
    \/ TransferSucceeds
    \/ TransferRaises("timeout", 0)

\* The call of save_channel_messages is made between the first and the
\* second call of download_video_messages.
CrawlBetween == vd_pc = "done" /\ vd_runs = 1

NextVideo ==
    \/ VideoStep
    \/ VideoDownloadStep
    \/ CrawlBetween /\ CallSave(TRUE, TRUE)
    \/ CrawlBetween /\ LoopExit
    \/ CrawlBetween /\ FetchBatch
    \/ CrawlBetween /\ ProcessMediaStart
    \/ CrawlBetween /\ ProcessMediaFinish
    \/ CrawlBetween /\ (\E elapsed \in BOOLEAN : BatchEnd(elapsed))
    \/ CrawlBetween /\ FinalSave

SpecVideo == InitVideo /\ [][NextVideo]_vars

\* Calls of save_channel_users, starting from an empty store.
InitUsers ==
    /\ NoDownload
    /\ NoVideo
    /\ NoEquiv
    /\ EmptyStore
    /\ NoCall
    /\ NoUsers
    /\ NoExport
    /\ NoLoad
    /\ NoSessions
    /\ plan = << >>
    /\ remote = << >>
    /\ remote_changed = FALSE
    /\ messages_batch_size = 1

\* A call whose loop is ended early by an exception leaves the state of a
\* call that fetched only the processed participants and failed in
\* save_database, so the calls enumerated are those that process all they
\* fetched.
NextUsers ==
    \E fetch \in Participants, ok \in BOOLEAN :
        SaveChannelUsers(fetch, DOMAIN fetch, ok)

SpecUsers == InitUsers /\ [][NextUsers]_vars

\* One call of export_individual_messages on any store.
InitExport ==
    /\ NoDownload
    /\ NoVideo
    /\ NoEquiv
    /\ EmptyStore
    /\ NoCall
    /\ NoUsers
    /\ NoLoad
    /\ NoSessions
    /\ ex_pc = "idle"
    /\ ex_store \in ExportStores
    /\ ex_todo = << >>
    /\ processed_groups = {}
    /\ ex_count = ZeroExportCounts
    /\ ex_files = << >>
    /\ ex_writes = [g \in 1..MaxGroup |-> 0]
    /\ ex_failed = {}
    /\ ex_ret = None
    /\ plan = << >>
    /\ remote = << >>
    /\ remote_changed = FALSE
    /\ messages_batch_size = 1

NextExport ==
    \/ ExportCall
    \/ ExportSkip
    \/ \E outcome \in ExportOutcomes : ExportGroup(outcome)
    \/ \E outcome \in ExportOutcomes : ExportSingle(outcome)
    \/ ExportFinish

SpecExport == InitExport /\ [][NextExport]_vars

\* One call of either load_database on any database file.
InitLoad ==
    /\ NoDownload
    /\ NoVideo
    /\ NoEquiv
    /\ EmptyStore
    /\ NoCall
    /\ NoUsers
    /\ NoExport
    /\ NoSessions
    /\ ld_impl \in {"module", "class"}
    /\ ld_file \in Files
    /\ ld_writable \in BOOLEAN
    /\ ld_file0 = ld_file
    /\ ld_ret = None
    /\ plan = << >>
    /\ remote = << >>
    /\ remote_changed = FALSE
    /\ messages_batch_size = 1

NextLoad ==
    \/ LoadExisting
    \/ LoadCreates
    \/ LoadRaises

SpecLoad == InitLoad /\ [][NextLoad]_vars

\* Any sequence of session operations, from a new database.
InitSessions ==
    /\ NoDownload
    /\ NoVideo
    /\ NoEquiv
    /\ EmptyStore
    /\ NoCall
    /\ NoUsers
    /\ NoExport
    /\ NoLoad
    /\ NoSessions
    /\ plan = << >>
    /\ remote = << >>
    /\ remote_changed = FALSE
    /\ messages_batch_size = 1

NextSessions == SessionStep

SpecSessions == InitSessions /\ [][NextSessions]_vars

\* ======================================================================
\* Properties of download_media_safely (checked under SpecMedia)
\* ======================================================================

\* Number of outcomes of this call that were not flow-control signals.
Failures ==
    Cardinality({i \in DOMAIN dl_outcomes : dl_outcomes[i] \in {"timeout", "failure"}})

ReturnedFailure == dl_pc = "returned" /\ ~dl_result.success
ReturnedSuccess == dl_pc = "returned" /\ dl_result.success

\* C1: a transfer that times out on the first two attempts and succeeds on
\* the third returns success = true with error = null (the two timeout
\* messages are not in the result handed to the caller).
C1_TimeoutsNotSurfaced ==
    (dl_pc = "returned" /\ dl_outcomes = <<"timeout", "timeout", "ok">>)
        => (dl_result.success /\ dl_result.error = None)

\* C2: handling a flow-control signal leaves the retry counter as it was, and
\* a call that met fewer non-flow-control failures than the budget
\* (MEDIA_DOWNLOAD_RETRY) never returns failure, however many flow-control
\* signals were interleaved.
C2_FloodKeepsBudget ==
    [][ /\ (dl_pc = "attempt" /\ dl_floods' = dl_floods + 1)
            => dl_retry_count' = dl_retry_count
        /\ (dl_pc' = "returned" /\ ~dl_result'.success)
            => Failures' >= MEDIA_DOWNLOAD_RETRY ]_vars

\* C2 witness: a call returned success after two failures interleaved with
\* the largest number of flow-control signals.
C2_Witness ==
    /\ ReturnedSuccess
    /\ dl_floods = MaxFloods
    /\ Failures = MEDIA_DOWNLOAD_RETRY - 1
    /\ dl_outcomes[1] # "flood"
    /\ dl_outcomes[Len(dl_outcomes) - 1] = "flood"

\* C3: after a flow-control signal mandating w seconds, the time slept until
\* the next transfer attempt is exactly w seconds, whatever the retry
\* counter.
C3_ExactFloodWait ==
    \A o \in dl_last :
        (dl_pc = "attempt" /\ o.kind = "flood") => dl_slept = o.arg * 100

\* C4: when every transfer attempt ends in a non-flow-control failure, the
\* transfer capability is invoked at most 3 times.
C4_AtMostThreeAttempts ==
    (\A i \in DOMAIN dl_outcomes : dl_outcomes[i] \in {"timeout", "failure"})
        => Len(dl_outcomes) <= 3

\* C5: no backoff is slept before the first attempt; the backoff slept before
\* the attempt that follows n >= 1 non-flow-control failures is, ignoring
\* jitter, 5 * 2^(n-1) seconds, so in a call without flow-control signals
\* the backoffs are 5, 10, 20, ... and each is twice the one before.
C5_BackoffDoubles ==
    /\ Failures = 0 => dl_backoffs = << >>
    /\ (dl_pc = "attempt" /\ Failures >= 1) =>
          /\ dl_backoffs # << >>
          /\ dl_backoffs[Len(dl_backoffs)] = 5 * 2 ^ (Failures - 1)
          /\ \A o \in dl_last : o.kind # "flood" =>
                dl_slept \in {5 * 2 ^ (Failures - 1) * j : j \in Jitter}
    /\ dl_floods = 0 =>
          /\ \A i \in DOMAIN dl_backoffs : dl_backoffs[i] = 5 * 2 ^ (i - 1)
          /\ \A i \in DOMAIN dl_backoffs :
                i > 1 => dl_backoffs[i] = 2 * dl_backoffs[i - 1]

\* C5 witness: the attempt after three failures, reached with backoffs 5, 10, 20.
C5_Witness ==
    /\ dl_pc = "attempt"
    /\ Failures = 3
    /\ dl_backoffs = <<5, 10, 20>>

\* C6: a call that exhausts the retry budget returns success = false,
\* file_path = null and the error of the last failed transfer attempt (not
\* an earlier one, and not the message of an earlier flow-control wait).
C6_LastErrorOnExhaustion ==
    ReturnedFailure =>
        /\ dl_result.file_path = None
        /\ dl_lastFailure # None
        /\ \A o \in dl_lastFailure :
              dl_result.error = Some(ErrorMessage(o.kind, o.arg))

\* C6 witness: exhaustion after a flow-control wait, with a last failure that
\* differs from the first one.
C6_Witness ==
    /\ ReturnedFailure
    /\ dl_floods > 0
    /\ dl_outcomes[1] = "timeout"
    /\ \E o \in dl_lastFailure : o.kind = "server"

\* C7: no outcome of a transfer makes download_media_safely propagate an
\* exception; whenever it returns, the result is success = true with a
\* file path, or success = false with file_path = null and an error.
C7_StructuredResult ==
    /\ dl_pc # "raised"
    /\ dl_pc = "returned" =>
          \/ dl_result.success /\ dl_result.file_path # None
          \/ ~dl_result.success /\ dl_result.file_path = None /\ dl_result.error # None

\* C7 witness: a failure result returned after an exception that only the
\* catch-all handler matches.
C7_Witness ==
    /\ ReturnedFailure
    /\ \E o \in dl_lastFailure : o.kind = "unexpected"

\* ======================================================================
\* Properties of save_channel_messages (checked under Spec)
\* ======================================================================

\* The ids handed to per-message processing in this call, as a set.
HandledSet == {handled[i] : i \in DOMAIN handled}

\* The remote ids inside the resolved range.
InRange == {i \in DOMAIN remote : fetch_min_id <= i /\ i < fetch_max_id}

\* The call ran its crawl loop to the end: it returned from the final save
\* and was not stopped by batch retry exhaustion.
Completed == pc = "done" /\ ret = Some(TRUE) /\ retry_count < MAX_RETRIES

\* C8: a crawl over min_id <= id < max_id that is not cut short by a limit or
\* by retry exhaustion hands exactly the remote ids of the range to
\* per-message processing, each id once, for every batch size and every
\* pattern of gaps; with an explicit min_id and max_id the range is the
\* given one.
C8_RangeExact ==
    (Completed /\ args.limit = None) =>
        /\ HandledSet = InRange
        /\ Cardinality(HandledSet) = Len(handled)
        /\ (args.recent_count = None /\ args.min_id # None /\ args.max_id # None) =>
              /\ fetch_min_id = Val(args.min_id)
              /\ fetch_max_id = Val(args.max_id)

\* C8 witness: a completed crawl over an explicit range with a gap inside the
\* range, fetched in more than one batch, that included the min_id message.
C8_Witness ==
    /\ Completed
    /\ args.limit = None /\ args.recent_count = None
    /\ args.min_id = Some(1) /\ args.max_id = Some(MaxId + 1)
    /\ DOMAIN remote = (1..MaxId) \ {2}
    /\ messages_batch_size = 1
    /\ Len(handled) = MaxId - 1
    /\ handled[Len(handled)] = 1

\* The call ran its crawl to the end and no per-message exception occurred.
CompletedClean == Completed /\ cnt.errors = 0

\* This call is the second of two calls with the same arguments over an
\* unchanged channel, and both ran their crawl to the end without a
\* per-message exception.
SecondOfTwo ==
    /\ run = 2
    /\ ~remote_changed
    /\ CompletedClean
    /\ \A r \in prev : r.args = args /\ r.completed

C10_RangePriority ==
    (run >= 1 /\ first_message # None) =>
        LET first == Val(first_message)
            last == Val(last_message)
        IN  /\ (args.min_id # None /\ args.max_id # None) =>
                  /\ fetch_min_id = Val(args.min_id)
                  /\ fetch_max_id = Val(args.max_id)
            /\ (args.min_id = None /\ args.max_id = None /\ args.recent_count # None) =>
                  /\ fetch_max_id = last + 1
                  /\ fetch_min_id = (IF first >= last - Val(args.recent_count) + 1
                                        THEN first
                                        ELSE last - Val(args.recent_count) + 1)
            /\ (args.min_id = None /\ args.max_id = None /\ args.recent_count = None) =>
                  /\ fetch_min_id = first
                  /\ fetch_max_id = last + 1

\* C11: with recent_count = N >= 1 alone, on a channel with the messages
\* F..L, the resolved range is [max(F, L-N+1), L], and a crawl into an empty
\* store that runs to the end with a batch size larger than N stores exactly
\* the ids of that range, all counted in saved.
C11_RecentExact ==
    (/\ run = 1 /\ CompletedClean
     /\ args.recent_count # None /\ args.min_id = None /\ args.max_id = None
     /\ args.limit = None) =>
        \A n \in args.recent_count : \A first \in first_message : \A last \in last_message :
            (n >= 1 /\ messages_batch_size > n /\ DOMAIN remote = first..last) =>
                LET lo == IF first >= last - n + 1 THEN first ELSE last - n + 1
                    ids == {i \in DOMAIN remote : lo <= i /\ i <= last}
                IN  /\ fetch_min_id = lo
                    /\ fetch_max_id = last + 1
                    /\ cnt.saved = Cardinality(ids)
                    /\ DOMAIN messages = ids

\* C12: a call whose resolved range has min >= max returns False at once:
\* it never enters the crawl loop (no listing fetch, no media transfer) and
\* leaves the message records, the video records, the persisted store and
\* the files as they were.
C12_InvalidRangeAborts ==
    [][ /\ (run' = run + 1 /\ first_message' # None /\ fetch_min_id' >= fetch_max_id')
            => /\ pc' = "done" /\ ret' = Some(FALSE)
               /\ cnt' = ZeroCounters
               /\ UNCHANGED <<messages, videos, persisted, disk, dl_vars>>
        /\ pc' \in {"loop", "process", "media", "final"}
            => fetch_min_id' < fetch_max_id' ]_vars

\* C12 witness: a second call with an empty or reversed range has returned
\* False while the store holds the records of the first call.
C12_Witness ==
    /\ run = 2 /\ pc = "done" /\ ret = Some(FALSE)
    /\ first_message # None
    /\ fetch_min_id >= fetch_max_id
    /\ messages # << >>
    /\ messages = start_messages

\* C13: every way of leaving the crawl loop leads to the final save, and the
\* final save writes the store as it is, so after the call returned (also
\* after batch retry exhaustion) the persisted store holds every record
\* reconciled so far.
C13_FinalSaveOnAllPaths ==
    [][ /\ (pc \in {"loop", "process", "media"} /\ pc' \notin {"loop", "process", "media"})
            => pc' = "final"
        /\ (pc = "final" /\ pc' # "final")
            => /\ pc' = "done"
               /\ messages' = messages /\ videos' = videos
               /\ persisted'.messages = messages /\ persisted'.videos = videos ]_vars

\* C13 witness: a call that stopped on batch retry exhaustion after a batch
\* that saved records, with these records in the persisted store.
C13_Witness ==
    /\ pc = "done"
    /\ retry_count >= MAX_RETRIES
    /\ cnt.saved >= 1
    /\ messages # start_messages
    /\ persisted.messages = messages

\* C14: a call stopped by batch retry exhaustion returns False.
C14_ExhaustionReturnsFalse ==
    (pc = "done" /\ retry_count >= MAX_RETRIES) => ret = Some(FALSE)

\* C15: flow-control signals met by the listing fetch are not counted as
\* errors, so flow-control signals alone never stop a crawl: when the batch
\* retry budget is exhausted, at least one of the counted exceptions was not
\* a flow-control signal.
C15_FloodIsBackpressure ==
    retry_count >= MAX_RETRIES => batch_floods < retry_count

\* C16: while a crawl runs, the time since the last save of the store never
\* exceeds SAVE_INTERVAL.
C16_FlushWithinInterval ==
    pc \in {"loop", "process", "media", "final"} => since_save <= SAVE_INTERVAL

\* C18: no step of any call removes a message id from the stored messages.
C18_NeverDeleted ==
    [][DOMAIN messages \subseteq DOMAIN messages']_vars

\* C18 witness: a second call ran to the end after message 3 was deleted
\* from the channel, and message 3 is still stored.
C18_Witness ==
    /\ run = 2 /\ Completed
    /\ remote_changed
    /\ 3 \notin DOMAIN remote
    /\ 3 \in DOMAIN messages
    /\ cnt.processed >= 1

\* C17: a step of save_channel_users never changes the first_seen of a
\* stored user and never drops a user; a user the step did not process is
\* left as it was, and a user it processed holds the profile of this fetch
\* and the time of this call in last_seen.
C17_FirstSeenImmutable ==
    [][ /\ \A id \in DOMAIN users :
              /\ id \in DOMAIN users'
              /\ users'[id].first_seen = users[id].first_seen
              /\ id \notin DOMAIN users_fetch' => users'[id] = users[id]
        /\ \A id \in DOMAIN users_fetch' :
              /\ id \in DOMAIN users'
              /\ users'[id].profile = users_fetch'[id]
              /\ users'[id].last_seen = users_now'
              /\ id \notin DOMAIN users => users'[id].first_seen = users_now' ]_vars

\* C17 witness: after the last call a user recorded by the first call still
\* has first_seen = 1 while its last_seen is the time of the last call and
\* its profile differs from the one last saved, and another user recorded by
\* the first call, not in the last fetch, is as the first call left it.
C17_Witness ==
    /\ users_now = MaxUserRuns
    /\ \E id \in DOMAIN users :
          /\ users[id].first_seen = 1
          /\ users[id].last_seen = MaxUserRuns
          /\ id \in DOMAIN users_persisted
          /\ users_persisted[id].profile # users[id].profile
    /\ \E id \in DOMAIN users :
          /\ id \notin DOMAIN users_fetch
          /\ users[id].first_seen = 1
          /\ users[id].last_seen < MaxUserRuns

\* The grouped_ids of the stored messages.
StoredGroups == {ex_store[i] : i \in DOMAIN ex_store} \ {0}

\* The files written for the group g.
FilesOf(g) == {f \in DOMAIN ex_files : ex_store[f] = g}

\* Every group was exported exactly once, into one file that holds all its
\* messages, and every later message of a group was skipped.
OneArtifactPerGroup ==
    /\ \A g \in StoredGroups :
          /\ ex_writes[g] = 1
          /\ FilesOf(g) = {FileOf(ex_store, g)}
          /\ ex_files[FileOf(ex_store, g)] = GroupMessages(ex_store, g)
    /\ ex_count.skipped_count =
          Cardinality({i \in DOMAIN ex_store : ex_store[i] # 0}) - Cardinality(StoredGroups)

C20_LoadReturnsEmptySnapshot ==
    (ld_ret # None /\ ld_file0.kind \in {"missing", "corrupt"} /\ ld_writable) =>
        /\ ~Val(ld_ret).raised
        /\ Val(ld_ret).db = NewDatabase

\* At most one session of the store is active.
AtMostOneActive(store) == Cardinality(ActivePhones(store)) <= 1

\* C21: in memory and in the file at most one session is active, and right
\* after save_session(p) or a switch to p the active sessions are exactly {p}.
C21_AtMostOneActive ==
    /\ AtMostOneActive(sessions)
    /\ AtMostOneActive(sessions_persisted)
    /\ ses_last.op \in {"save", "switch"} =>
          /\ ses_last.phone \in DOMAIN sessions
          /\ \A q \in DOMAIN sessions : sessions[q].active <=> q = ses_last.phone

\* C21 witness: a switch ended with 'session no longer valid' in a store of
\* three sessions: the switched-to session is the only active one in memory
\* while the file still has another one active.
C21_Witness ==
    /\ ses_last.op = "switch"
    /\ Cardinality(DOMAIN sessions) = 3
    /\ ActivePhones(sessions) = {ses_last.phone}
    /\ ActivePhones(sessions_persisted) # ActivePhones(sessions)
    /\ ActivePhones(sessions_persisted) # {}

\* C22: a media transfer runs only inside the media step of one message of
\* a fetched batch; it starts only from the per-message loop over a complete
\* batch, the loop moves to the next message only when no transfer is
\* running, and a batch is fetched only when no transfer is running and
\* every message of the previous batch has been handled.
C22_StrictlySequential ==
    [][ /\ dl_pc' # "idle" => pc' = "media"
        /\ (dl_pc = "idle" /\ dl_pc' # "idle") =>
              /\ pc = "process" /\ idx <= Len(batch_messages)
              /\ batch_messages' = batch_messages /\ idx' = idx
        /\ idx' # idx => dl_pc' = "idle"
        /\ (pc = "loop" /\ pc' # "loop") =>
              /\ dl_pc = "idle"
              /\ idx > Len(batch_messages) \/ batch_messages = << >> ]_vars

\* C22 witness: in a second batch the transfer of a message is at a retry.
C22_Witness ==
    /\ pc = "media" /\ dl_pc = "attempt"
    /\ dl_retry_count >= 1
    /\ cnt.processed > Len(batch_messages)
    /\ Len(batch_messages) >= 1

\* The step completes the per-message processing of a message: the loop
\* moves on and the message was not counted in errors.
Reconciles == pc \in {"process", "media"} /\ idx' = idx + 1 /\ cnt'.errors = cnt.errors

\* The media_file_path of the record built in the step: the path of the
\* download just made, the stored path when the media step carried it over
\* (media_skipped counted), else None.
BuiltPath ==
    IF pc = "media" THEN dl_result.file_path
    ELSE IF cnt'.media_skipped > cnt.media_skipped
            THEN messages[batch_messages[idx]].media_file_path
            ELSE None

\* The stored record of the message differs from the one built in the step
\* in views, or (media download enabled) in media_file_path.
StoredDiffers ==
    LET id == batch_messages[idx]
    IN  \/ messages[id].views # remote[id].views
        \/ (args.download_media /\ messages[id].media_file_path # BuiltPath)

\* C23: a step that completes the processing of a message increments exactly
\* one of saved, updated, skipped: saved iff the message is not stored or
\* force_redownload is set, and then the stored record is the new one;
\* updated iff it is stored, force_redownload is unset and views or (media
\* download enabled) media_file_path differ; skipped otherwise.
C23_ReconciliationDecision ==
    [][ Reconciles =>
          LET id == batch_messages[idx]
              replace == id \notin DOMAIN messages \/ args.force_redownload
              differs == IF replace THEN FALSE ELSE StoredDiffers
          IN  /\ cnt'.saved = cnt.saved + (IF replace THEN 1 ELSE 0)
              /\ cnt'.updated = cnt.updated + (IF differs THEN 1 ELSE 0)
              /\ cnt'.skipped = cnt.skipped + (IF replace \/ differs THEN 0 ELSE 1)
              /\ replace =>
                    messages'[id] = [views |-> remote[id].views, text |-> remote[id].text,
                                     has_media |-> remote[id].media # "none",
                                     media_file_path |-> BuiltPath, last_update |-> run] ]_vars

\* C23 witness: a second call without media download, made after the views
\* of message 3 changed, ended with message 3 updated and message 2 skipped,
\* the first call having saved both.
C23_Witness ==
    /\ run = 2 /\ pc = "done" /\ ret = Some(TRUE)
    /\ ~args.download_media /\ ~args.force_redownload
    /\ 3 \in DOMAIN remote /\ remote[3].views = 1
    /\ cnt.saved = 0 /\ cnt.updated = 1 /\ cnt.skipped = 1
    /\ messages[3].views = 1
    /\ messages[2].last_update = 1

\* The messages counted in saved, updated, skipped and errors.
Settled(c) == c.saved + c.updated + c.skipped + c.errors

\* C24: within a call, a step that counts a per-message exception adds one to errors and
\* changes no other counter, no stored record and not retry_count, and the
\* loop goes on with the next message; a step that counts a media failure
\* also reconciles the message; and at the end of a batch every message of
\* it has been counted in exactly one of saved, updated, skipped, errors.
C24_MessageErrorIsolated ==
    [][ run' = run =>
        /\ cnt'.errors # cnt.errors =>
              /\ cnt' = [cnt EXCEPT !.errors = @ + 1]
              /\ messages' = messages /\ videos' = videos
              /\ retry_count' = retry_count
              /\ pc' = pc /\ idx' = idx + 1 /\ batch_messages' = batch_messages
        /\ cnt'.media_errors # cnt.media_errors =>
              /\ cnt'.media_errors = cnt.media_errors + 1
              /\ cnt'.errors = cnt.errors
              /\ Settled(cnt') = Settled(cnt) + 1
              /\ batch_messages[idx] \in DOMAIN messages'
              /\ pc' = "process" /\ idx' = idx + 1
        /\ (pc = "process" /\ pc' = "loop") =>
              /\ Len(handled) >= Len(batch_messages)
              /\ SubSeq(handled, Len(handled) - Len(batch_messages) + 1, Len(handled))
                    = batch_messages
              /\ Settled(cnt) = Len(handled) ]_vars

\* C24 witness: in a batch of two messages the first raised and the second,
\* whose media step failed, was saved.
C24_Witness ==
    /\ pc = "process" /\ Len(batch_messages) = 2 /\ idx = 3
    /\ cnt.errors = 1 /\ cnt.media_errors = 1 /\ cnt.saved = 1
    /\ retry_count = 0
    /\ batch_messages[1] \notin DOMAIN messages
    /\ batch_messages[2] \in DOMAIN messages

\* C25: within a call, a step that counts a batch failure leaves current_id,
\* the range and the stored records unchanged; while retry_count is below
\* MAX_RETRIES it sleeps 2 * BATCH_DELAY and is back at the top of the crawl
\* loop, and when retry_count reaches MAX_RETRIES it leaves the loop, after
\* which the only step is the final save.
C25_RetrySameCursor ==
    [][ /\ (run' = run /\ retry_count' # retry_count /\ retry_count' # 0) =>
              /\ retry_count' = retry_count + 1
              /\ current_id' = current_id
              /\ <<fetch_min_id', fetch_max_id'>> = <<fetch_min_id, fetch_max_id>>
              /\ messages' = messages
              /\ IF retry_count' < MAX_RETRIES
                    THEN pc' = "loop" /\ last_sleep' = 2 * MESSAGES_BATCH_DELAY
                    ELSE /\ pc' = "final" /\ last_sleep' = 0
                         /\ retry_count' = MAX_RETRIES /\ MAX_RETRIES = 3
        /\ pc = "final" =>
              /\ pc' = "done"
              /\ cnt' = cnt /\ batch_messages' = batch_messages /\ current_id' = current_id
      ]_vars

\* C25 witness: after a batch was processed the fetch of the next one failed
\* twice; the crawl slept and is at the top of the loop at the cursor the
\* first batch left.
C25_Witness ==
    /\ pc = "loop" /\ retry_count = 2 /\ last_sleep = 2 * MESSAGES_BATCH_DELAY
    /\ cnt.saved >= 1
    /\ batch_messages # << >>
    /\ current_id = NextCursor(batch_messages)
    /\ CrawlCondition

\* C26: within a call current_id never increases and every fetch of a
\* non-empty batch sets it to the smallest id of the batch minus one, below
\* its old value; an empty batch leaves the loop; retry_count never exceeds
\* MAX_RETRIES; and a crawl that entered its loop always reaches the end of
\* the call.
C26_CrawlTerminates ==
    /\ [][ run' = run =>
             /\ current_id' <= current_id
             /\ (pc = "loop" /\ pc' = "process") =>
                   /\ batch_messages' # << >>
                   /\ current_id' = Min({batch_messages'[i] : i \in DOMAIN batch_messages'}) - 1
                   /\ current_id' < current_id
             /\ (pc = "loop" /\ pc' = "loop") => retry_count' = retry_count + 1
             /\ retry_count' <= MAX_RETRIES ]_vars
    /\ (pc = "loop") ~> (pc = "done")

\* C26 witness: a call over a channel with a gap ended after two batches and
\* two batch failures, its cursor below the range.
C26_Witness ==
    /\ pc = "done" /\ ret = Some(TRUE)
    /\ DOMAIN remote = {1, 3}
    /\ Len(handled) = 2
    /\ messages_batch_size = 1
    /\ retry_count = 2
    /\ current_id < fetch_min_id

\* C27: download_media_safely returns whenever the provider issues finitely
\* many flow-control signals, after at most MEDIA_DOWNLOAD_RETRY + 1 attempts
\* that failed otherwise; a flow-control signal leaves retry_count as it was
\* and sends the call back to the top of the loop with the loop condition
\* still true, so that the call neither returns nor reports exhaustion
\* because of it, however many signals there are.
FailedAttempts ==
    Cardinality({i \in DOMAIN dl_outcomes : dl_outcomes[i] \in {"timeout", "failure"}})

C27_DownloadTerminates ==
    /\ [][dl_floods' = dl_floods + 1 =>
              /\ dl_retry_count' = dl_retry_count
              /\ dl_retry_count' <= MEDIA_DOWNLOAD_RETRY
              /\ dl_pc' = "loop"
              /\ ~dl_result'.success]_vars
    /\ [](/\ FailedAttempts = dl_retry_count
          /\ dl_retry_count <= MEDIA_DOWNLOAD_RETRY + 1)
    /\ (dl_pc \in {"loop", "attempt"}) ~> (dl_pc = "returned")

\* C27 witness: a call returned after MaxFloods flow-control signals and
\* MEDIA_DOWNLOAD_RETRY + 1 other failures, the signals having used none of
\* the retry budget.
C27_Witness ==
    /\ dl_pc = "returned"
    /\ dl_floods = MaxFloods
    /\ ~dl_result.success
    /\ FailedAttempts = MEDIA_DOWNLOAD_RETRY + 1
    /\ Len(dl_outcomes) = MaxFloods + MEDIA_DOWNLOAD_RETRY + 1
    /\ dl_outcomes[Len(dl_outcomes) - 1] = "flood"

\* C28: in a call with limit L a listing fetch returns
\* min(MESSAGES_BATCH_SIZE, L - processed) messages when the range still
\* holds that many (and never more), at most L messages are handed to the
\* reconciliation in the whole call, and once processed has reached L the
\* only step the loop takes is its exit: no fetch follows.
Available == {i \in DOMAIN remote : fetch_min_id <= i /\ i <= current_id}

C28_LimitRespected ==
    [][(args.limit # None /\ run' = run) =>
          LET L == Val(args.limit)
              remaining == L - cnt.processed
              request == IF messages_batch_size <= remaining
                            THEN messages_batch_size ELSE remaining
          IN  /\ cnt'.processed <= L
              /\ cnt'.processed - cnt.processed <= request
              /\ (pc = "loop" /\ pc' = "process") =>
                     /\ Len(batch_messages') =
                            (IF Cardinality(Available) <= request
                                THEN Cardinality(Available) ELSE request)
                     /\ cnt'.processed = cnt.processed + Len(batch_messages')
              /\ Len(handled') <= L
              /\ cnt'.saved + cnt'.updated + cnt'.skipped + cnt'.errors <= L
              /\ (pc = "loop" /\ cnt.processed >= L) =>
                     /\ pc' = "final"
                     /\ cnt' = cnt
                     /\ retry_count' = retry_count
                     /\ batch_messages' = batch_messages]_vars

\* C28 witness: a call with limit 1 on a channel of at least two messages,
\* with a batch size of 2, has returned after one fetch of one message.
C28_Witness ==
    /\ pc = "done"
    /\ ret = Some(TRUE)
    /\ args.limit = Some(1)
    /\ messages_batch_size = 2
    /\ Cardinality(DOMAIN remote) >= 2
    /\ cnt.processed = 1
    /\ Len(handled) = 1
    /\ current_id >= fetch_min_id

\* C29: the media step of save_channel_messages calls download_media_safely
\* for a message if and only if media download is enabled, the message has
\* an attachment, and the stored record has no media_file_path, or the file
\* is gone, or force_redownload is set; a message with an attachment for
\* which it is not called keeps its stored path in the record and is counted
\* in media_skipped; every call is followed by a MEDIA_DOWNLOAD_DELAY sleep.
\* (The steps in which the handling of the message raised are left aside.)
StoredPath(store, id) ==
    IF id \in DOMAIN store THEN store[id].media_file_path ELSE None

MediaCondition ==
    /\ args.download_media
    /\ remote[batch_messages[idx]].media # "none"
    /\ \/ StoredPath(messages, batch_messages[idx]) = None
       \/ Val(StoredPath(messages, batch_messages[idx])) \notin disk.full \cup disk.empty
       \/ args.force_redownload

HandledWithoutEngine ==
    /\ pc = "process" /\ pc' = "process"
    /\ idx <= Len(batch_messages) /\ idx' = idx + 1
    /\ cnt'.errors = cnt.errors
    /\ cnt'.media_errors = cnt.media_errors

C29_MediaStepGate ==
    [][/\ (pc = "process" /\ pc' = "media") => MediaCondition
       /\ HandledWithoutEngine => ~MediaCondition
       /\ (HandledWithoutEngine /\ remote[batch_messages[idx]].media # "none") =>
              /\ StoredPath(messages', batch_messages[idx]) =
                     StoredPath(messages, batch_messages[idx])
              /\ cnt'.media_skipped = cnt.media_skipped + 1
       /\ (pc = "media" /\ pc' = "process") => last_sleep' = MEDIA_DOWNLOAD_DELAY]_vars

\* C30: a step that completes the processing of a stored message whose text
\* (text, raw_text, edit_date) differs from the remote one while its counters
\* and its media path do not, force_redownload unset, counts the message as
\* skipped and leaves the store, and so the record's text and last_update,
\* as it was.
C30_TextEditNoUpdate ==
    [][(/\ Reconciles
        /\ batch_messages[idx] \in DOMAIN messages
        /\ ~args.force_redownload
        /\ messages[batch_messages[idx]].text # remote[batch_messages[idx]].text
        /\ ~StoredDiffers) =>
          /\ cnt'.skipped = cnt.skipped + 1
          /\ cnt'.updated = cnt.updated
          /\ cnt'.saved = cnt.saved
          /\ messages' = messages]_vars

\* C30 witness: the text of message 3 was edited after a first call stored
\* it; a second call without force_redownload has processed the message and
\* returned, and the record still holds the old text and the time of the
\* first call.
C30_Witness ==
    /\ run = 2 /\ pc = "done" /\ ret = Some(TRUE)
    /\ ~args.force_redownload
    /\ \E i \in DOMAIN handled : handled[i] = 3
    /\ cnt.errors = 0 /\ cnt.updated = 0 /\ cnt.saved = 0 /\ cnt.skipped >= 1
    /\ remote[3].text = 1
    /\ messages[3].text = 0
    /\ messages[3].last_update = 1

\* The stored video record of the next listed video has a file_path whose
\* file is on disk.
VideoOnDisk ==
    LET id == Head(vd_todo)
    IN  IF id \in DOMAIN videos
           THEN (IF videos[id].file_path # None
                    THEN Val(videos[id].file_path) \in disk.full \cup disk.empty
                    ELSE FALSE)
           ELSE FALSE

\* C31: when download_video_messages takes up a video (and its handling does
\* not raise), it skips it if the stored record has a file_path whose file is
\* on disk (skipped is incremented, no download is called, the records are
\* unchanged), and it calls download_media_safely if the record is absent, has
\* no file_path, or its file is gone.
C31_VideoSkipPolicy ==
    [][(/\ vd_pc = "list" /\ vd_todo # << >>
        /\ vd_pc' # "done"
        /\ vd_cnt'.errors = vd_cnt.errors) =>
          IF VideoOnDisk
             THEN /\ vd_pc' = "list" /\ dl_pc' = "idle"
                  /\ vd_cnt'.skipped = vd_cnt.skipped + 1
                  /\ vd_todo' = Tail(vd_todo)
                  /\ videos' = videos
             ELSE /\ vd_pc' = "media" /\ dl_pc' = "loop"
                  /\ vd_cnt' = vd_cnt
                  /\ vd_todo' = vd_todo]_vars

\* C31 witness: a second call skipped one video and downloaded again the
\* other one, whose file the user had removed.
C31_Witness ==
    /\ vd_runs = 2 /\ vd_pc = "done" /\ vd_ret = Some(TRUE)
    /\ vd_cnt.skipped = 1 /\ vd_cnt.downloaded = 1
    /\ vd_last.outcome = "downloaded"
    /\ vd_removed = {VideoFilename(vd_last.id)}
    /\ videos[vd_last.id].download_date = 2

\* C32: after every item download_video_messages handled (downloaded,
\* download failed, skipped, or raised) it slept MEDIA_DOWNLOAD_DELAY before
\* it took up the next one.
C32_DelayAfterEveryItem ==
    vd_last.outcome # "none" => vd_last.slept = MEDIA_DOWNLOAD_DELAY

\* C33: whenever download_video_messages returns after it started to iterate
\* the videos, be it at the end of the listing or by an exception of the
\* listing iteration, the database file holds the video records of the store.
C33_SaveAtEveryExit ==
    [][(vd_pc = "list" /\ vd_pc' = "done") => persisted'.videos = videos']_vars

\* the parts of the statements about an empty or mismatching download
NoSuccessWithoutFile ==
    dl_result.success =>
        /\ dl_result.file_path = Some(dl_filename)
        /\ dl_filename \in disk.full

MismatchIsSuccess ==
    (dl_last' # dl_last /\ dl_last' = Some([kind |-> "ok", arg |-> 1])) =>
        /\ dl_result'.success
        /\ dl_pc' = "returned"
        /\ dl_retry_count' = dl_retry_count

NoNewEmptyFile ==
    (dl_pc = "attempt" /\ dl_filename \in disk'.empty \ disk.empty) => FALSE

\* C34, as stated: an attempt of download_media_safely never leaves a
\* zero-byte file at the destination (the file is removed), the attempt
\* consumes one retry unit, success is never returned for a missing or
\* zero-byte file, and a success with a size mismatch is returned as success.
C34_EmptyFileRemoved_AsStated ==
    /\ NoSuccessWithoutFile
    /\ [][NoNewEmptyFile /\ MismatchIsSuccess /\ NoSuccessWithoutFile']_vars

EmptyFileRemoved ==
    (dl_pc = "attempt" /\ dl_last' # dl_last /\ dl_last' = Some([kind |-> "empty", arg |-> 0])) =>
        /\ ~Exists(disk', dl_filename)
        /\ dl_retry_count' = dl_retry_count + 1
        /\ ~dl_result'.success
        /\ dl_pc' = "loop"

EmptyFileKept ==
    (dl_pc = "attempt" /\ dl_filename \in disk'.empty \ disk.empty) =>
        /\ dl_retry_count' = dl_retry_count + 1
        /\ ~dl_result'.success
        /\ dl_pc' = "loop"
        /\ \E e \in dl_result'.error : e.msg = "OS error: "

\* C34: when an attempt reports a path whose file has size 0 and os.remove
\* returns, the file is gone after the attempt; when os.remove raises, the
\* file stays and the error is the OS error; in both cases the attempt
\* consumes one retry unit and the call goes on; success is never returned
\* for a missing or zero-byte file, and a success with a size mismatch is
\* returned as success.
C34_EmptyFileHandled ==
    /\ NoSuccessWithoutFile
    /\ [][EmptyFileRemoved /\ EmptyFileKept /\ MismatchIsSuccess /\ NoSuccessWithoutFile']_vars

\* C34 witness: a call returned success with a size mismatch at its second
\* attempt, the first one having reported an empty file that was removed.
C34_Witness ==
    /\ dl_pc = "returned"
    /\ dl_result.success
    /\ dl_last = Some([kind |-> "ok", arg |-> 1])
    /\ dl_lastFailure = Some([kind |-> "empty", arg |-> 0])
    /\ dl_retry_count = 1
    /\ dl_filename \in disk.full

\* C35: when the media step of save_channel_messages downloaded a video
\* successfully, the video record of the message is the one of this download,
\* whatever record the store held (also one of download_video_messages whose
\* file is on disk); download_video_messages starts no download for a video
\* whose record's file is on disk and changes no record but the one of the
\* video it downloaded.
C35_MessagePathOverwrites ==
    [][/\ (pc = "media" /\ pc' = "process" /\ dl_result.success
              /\ remote[Current].media = "video") =>
             videos'[Current] = [file_path |-> dl_result.file_path, download_date |-> run]
       /\ (vd_pc = "list" /\ vd_todo # << >> /\ VideoOnDisk) =>
             (vd_pc' # "media" /\ videos' = videos)
       /\ (vd_pc = "list" /\ vd_todo = << >>) => videos' = videos
       /\ vd_pc = "media" =>
             \A id \in DOMAIN videos : id # Head(vd_todo) => videos'[id] = videos[id]]_vars

\* C35 witness: download_video_messages downloaded a video, whose file is on
\* disk, and the message backfill that followed replaced its record by the
\* path of its own download.
C35_Witness ==
    \E id \in DOMAIN videos :
        /\ vd_runs = 1 /\ vd_pc = "done" /\ pc = "done"
        /\ vd_cnt.downloaded >= 1
        /\ VideoFilename(id) \in disk.full
        /\ id \in disk.full
        /\ videos[id].file_path = Some(id)
        /\ videos[id].download_date = run

\* C36: retry_count of save_channel_messages counts the batch failures in a
\* row: a batch that completes resets it to 0, a batch failure adds one to
\* it, nothing else changes it, and the crawl is aborted by a failure exactly
\* when that failure is the MAX_RETRIES-th in a row.
C36_ConsecutiveFailuresOnly ==
    [][/\ (pc = "process" /\ pc' = "loop" /\ last_sleep' = 0) => retry_count' = 0
       /\ retry_count' # retry_count =>
             (retry_count' = 0 \/ retry_count' = retry_count + 1)
       /\ retry_count' = retry_count + 1 =>
             /\ pc \in {"loop", "process"}
             /\ pc' = (IF retry_count' >= MAX_RETRIES THEN "final" ELSE "loop")
       /\ (pc \in {"loop", "process"} /\ pc' = "final" /\ retry_count' = retry_count) =>
             retry_count' < MAX_RETRIES]_vars

\* C36 witness: a crawl that is still running after MAX_RETRIES - 1 failures,
\* a completed batch and MAX_RETRIES - 1 more failures.
C36_Witness ==
    /\ pc = "loop"
    /\ recovered = Some(MAX_RETRIES - 1)
    /\ retry_count = MAX_RETRIES - 1
    /\ handled # << >>
    /\ ret = None

\* C37: no step of a save_channel_messages call with download_media = False
\* changes the media_file_path of a stored message record that holds a path.
C37_PathKeptWithoutMedia ==
    [][(pc \in {"loop", "process", "media", "final"} /\ ~args.download_media) =>
          \A id \in DOMAIN messages :
              messages[id].media_file_path # None =>
                  StoredPath(messages', id) = messages[id].media_file_path]_vars

\* C38: every video record of the store has a file_path; a step changes the
\* video records only when download_media_safely has returned success, and
\* the step of download_video_messages or save_channel_messages that takes up
\* a failed download leaves every video record as it was.
VideoRecordsHavePath ==
    \A id \in DOMAIN videos : videos[id].file_path # None

C38_VideoRecordsHavePath ==
    /\ VideoRecordsHavePath
    /\ [][/\ VideoRecordsHavePath'
          /\ videos' # videos => (dl_pc = "returned" /\ dl_result.success)
          /\ (vd_pc = "media" /\ vd_pc' = "list" /\ ~dl_result.success) => videos' = videos
          /\ (pc = "media" /\ pc' = "process" /\ ~dl_result.success) => videos' = videos]_vars

\* C38 witness: the second call of download_video_messages failed to download
\* again a video whose file had been removed; the record of the first call is
\* still there, with its path.
C38_Witness ==
    /\ vd_runs = 2
    /\ vd_last.outcome = "failed"
    /\ vd_last.id \in DOMAIN videos
    /\ videos[vd_last.id].file_path = Some(VideoFilename(vd_last.id))
    /\ videos[vd_last.id].download_date = 1
    /\ VideoFilename(vd_last.id) \in vd_removed

\* C39: when the loop of save_channel_messages is left and when the call has
\* returned, processed = saved + updated + skipped + errors; and a call with
\* limit L on a range of at least L messages that did not exhaust its retries
\* has handed exactly L messages to the reconciliation.
InFetchRange == {i \in DOMAIN remote : fetch_min_id <= i /\ i < fetch_max_id}

C39_CounterConservation ==
    (pc \in {"final", "done"} /\ run >= 1 /\ ret # Some(FALSE)) =>
        /\ cnt.processed = cnt.saved + cnt.updated + cnt.skipped + cnt.errors
        /\ (args.limit # None /\ retry_count < MAX_RETRIES
               /\ Cardinality(InFetchRange) >= Val(args.limit)) =>
              Len(handled) = Val(args.limit)

====
